---- MODULE Spec2Model ----
(***************************************************************************)
(* Todo backend: signup / signin, JWT issuance and verification, request   *)
(* identity resolution and per-user task handlers, modelled from           *)
(* backend/src (api/auth.py, api/tasks.py, auth/jwt_handler.py,            *)
(* auth/dependencies.py, models/user.py, models/task.py).                  *)
(*                                                                         *)
(* Conventions.  Optional[T] is the set {} (None) or {v}.  A Python str    *)
(* that the code converts or inspects (the sub claim, a password) is a     *)
(* sequence of one-character strings.  Time is whole seconds since the     *)
(* epoch (the resolution of the iat / exp claims).                         *)
(***************************************************************************)
EXTENDS Integers, Sequences, FiniteSets, Bags, TLC

VARIABLES now, ticks, users, nextUserId, tasks, nextTaskId, issued, inflight, resp,
          request_counts, admitted, dispatched, pw, twin_counts

\* the rate limiter's map, and the record of what it has let through
limiter == <<request_counts, admitted, dispatched>>
vars == <<now, ticks, users, nextUserId, tasks, nextTaskId, issued, inflight, resp,
          request_counts, admitted, dispatched, pw, twin_counts>>

(***************************************************************************)
(* Bounds of the model.                                                    *)
(***************************************************************************)
MaxTicks == 1       \* clock advances per behaviour
MaxInFlight == 2    \* handlers suspended at an await at the same time
MaxTasks == 1       \* task rows ever inserted, with handlers interleaved
MaxRows == 2        \* task rows ever inserted, with handlers one at a time
FirstUserId == 9    \* value of the users id sequence when TokenSpec starts
MaxIssued == 2      \* tokens issued by signup / signin per behaviour
MaxRequests == 4    \* requests reaching the rate limiter per behaviour

(***************************************************************************)
(* Program constants.                                                      *)
(***************************************************************************)
ALGORITHM == "HS256"
TOKEN_EXPIRE_DAYS == 7
ISSUER == "todo-app-backend"
SecondsPerDay == 86400
SECRET == "better_auth_secret"
MinPasswordLen == 8
BcryptMaxBytes == 72

Lifetime == TOKEN_EXPIRE_DAYS * SecondsPerDay

None == {}
Some(v) == {v}
TheValue(opt) == CHOOSE v \in opt : TRUE

(***************************************************************************)
(* str(int) and int(str), as Python computes them.                         *)
(***************************************************************************)
Digits == <<"0", "1", "2", "3", "4", "5", "6", "7", "8", "9">>
DigitSet == {Digits[i] : i \in 1..10}
DigitValue(c) == (CHOOSE i \in 1..10 : Digits[i] = c) - 1

RECURSIVE NatToStr(_)
NatToStr(n) ==
    IF n < 10 THEN <<Digits[n + 1]>>
    ELSE NatToStr(n \div 10) \o <<Digits[(n % 10) + 1]>>

str(n) == IF n < 0 THEN <<"-">> \o NatToStr(0 - n) ELSE NatToStr(n)

RECURSIVE DigitsToNat(_)
DigitsToNat(s) ==
    IF Len(s) = 0 THEN 0
    ELSE 10 * DigitsToNat(SubSeq(s, 1, Len(s) - 1)) + DigitValue(s[Len(s)])

RECURSIVE Strip(_)
Strip(s) ==
    IF Len(s) > 0 /\ s[1] = " " THEN Strip(Tail(s))
    ELSE IF Len(s) > 0 /\ s[Len(s)] = " " THEN Strip(SubSeq(s, 1, Len(s) - 1))
    ELSE s

\* int(x) for x = payload.get("sub"): x is None (absent claim) or a str;
\* TypeError / ValueError are reported as None.
int(x) ==
    IF x = None THEN None
    ELSE LET b == Strip(TheValue(x))
             signed == Len(b) > 0 /\ b[1] \in {"+", "-"}
             body == IF signed THEN Tail(b) ELSE b
         IN  IF Len(body) > 0 /\ \A i \in 1..Len(body) : body[i] \in DigitSet
             THEN Some(IF signed /\ b[1] = "-" THEN 0 - DigitsToNat(body)
                       ELSE DigitsToNat(body))
             ELSE None

(***************************************************************************)
(* Token strings.  A compact JWT is the record of its header algorithm,    *)
(* its claims and its signature; HMAC is an injective function of the key, *)
(* the header and the payload.  Any other string is a "text".              *)
(***************************************************************************)
Text(x) == [form |-> "text", text |-> x]
EmptyStr == Text("")
BearerLit == [form |-> "lit", text |-> "Bearer "]
BasicLit == [form |-> "lit", text |-> "Basic "]

Sign(key, alg, claims) == [key |-> key, alg |-> alg, over |-> claims]

\* jose.jwt.encode(payload, key, algorithm)
jwt_encode(payload, key, alg) ==
    [form |-> "jwt", alg |-> alg, claims |-> payload, sig |-> Sign(key, alg, payload)]

\* jose's expiry test: ExpiredSignatureError when exp < now
Mut_NotExpired(exp, t) == exp > t + 1
NotExpired(exp, t) == ~(exp < t)

\* jose.jwt.decode(token, key, algorithms): the claims, or None for JWTError
\* (malformed structure, algorithm not allowed, signature mismatch, expiry).
jwt_decode(token, key, algorithms, t) ==
    IF /\ token.form = "jwt"
       /\ token.alg \in algorithms
       /\ token.sig = Sign(key, token.alg, token.claims)
       /\ ("exp" \in DOMAIN token.claims => NotExpired(token.claims.exp, t))
    THEN Some(token.claims)
    ELSE None

Mut_create_access_token(user_id, email, t) ==
    jwt_encode([sub |-> str(user_id + 1), email |-> email, iat |-> t,
                exp |-> t + Lifetime, iss |-> ISSUER], SECRET, ALGORITHM)
create_access_token(user_id, email, t) ==
    LET expire == t + TOKEN_EXPIRE_DAYS * SecondsPerDay
        payload == [sub |-> str(user_id), email |-> email, iat |-> t,
                    exp |-> expire, iss |-> ISSUER]
    IN  jwt_encode(payload, SECRET, ALGORITHM)

verify_token(token, t) == jwt_decode(token, SECRET, {ALGORITHM}, t)

Mut_extract_user_id_from_token(token, t) ==
    IF token.form = "jwt" /\ "sub" \in DOMAIN token.claims
    THEN int(Some(token.claims.sub)) ELSE None
extract_user_id_from_token(token, t) ==
    LET payload == verify_token(token, t)
    IN  IF payload = None THEN None
        ELSE int(IF "sub" \in DOMAIN TheValue(payload)
                 THEN Some(TheValue(payload).sub) ELSE None)

(***************************************************************************)
(* Identity resolution.  A request carries an optional Authorization       *)
(* header (a sequence of string parts) and an optional auth-token cookie.  *)
(***************************************************************************)
startswith_Bearer(h) == Len(h) > 0 /\ h[1] = BearerLit

Join(parts) ==
    IF Len(parts) = 0 THEN EmptyStr
    ELSE IF Len(parts) = 1 THEN parts[1]
    ELSE Text("concatenation")

\* auth_header.replace("Bearer ", ""): every occurrence is removed
replace_Bearer(h) == Join(SelectSeq(h, LAMBDA p : p # BearerLit))

falsy(tok) == tok = None \/ tok = Some(EmptyStr)

AuthOk(u) == [status |-> 200, detail |-> "", user_id |-> Some(u)]
AuthFail(detail) == [status |-> 403, detail |-> detail, user_id |-> None]

\* the token get_current_user_id settles on (header first, then cookie)
Mut_TokenOf(request) ==
    IF ~falsy(request.cookie) THEN request.cookie
    ELSE IF request.header # None /\ startswith_Bearer(TheValue(request.header))
         THEN Some(replace_Bearer(TheValue(request.header)))
         ELSE None
TokenOf(request) ==
    LET fromHeader ==
            IF /\ request.header # None
               /\ TheValue(request.header) # <<>>
               /\ startswith_Bearer(TheValue(request.header))
            THEN Some(replace_Bearer(TheValue(request.header)))
            ELSE None
    IN  IF falsy(fromHeader) THEN request.cookie ELSE fromHeader

Mut_get_current_user_id(request, t) ==
    LET token == TokenOf(request)
    IN  IF falsy(token) THEN AuthFail("Authentication required")
        ELSE IF extract_user_id_from_token(TheValue(token), t) # None
        THEN AuthOk(TheValue(extract_user_id_from_token(TheValue(token), t)))
        ELSE IF /\ TheValue(token).form = "jwt"
                /\ TheValue(token).sig = Sign(SECRET, ALGORITHM, TheValue(token).claims)
        THEN AuthFail("Token has expired")
        ELSE AuthFail("Invalid or expired authentication token")
get_current_user_id(request, t) ==
    LET token == TokenOf(request)
    IN  IF falsy(token) THEN AuthFail("Authentication required")
        ELSE LET user_id == extract_user_id_from_token(TheValue(token), t)
             IN  IF user_id = None
                 THEN AuthFail("Invalid or expired authentication token")
                 ELSE AuthOk(TheValue(user_id))

(***************************************************************************)
(* Passwords.  A character is named by a string; ByteLen is the length of  *)
(* its UTF-8 encoding.                                                     *)
(***************************************************************************)
UpperSet == {"A", "B", "C", "D", "E", "F", "G", "H", "I", "J", "K", "L", "M",
             "N", "O", "P", "Q", "R", "S", "T", "U", "V", "W", "X", "Y", "Z"}
LowerSet == {"a", "b", "c", "d", "e", "f", "g", "h", "i", "j", "k", "l", "m",
             "n", "o", "p", "q", "r", "s", "t", "u", "v", "w", "x", "y", "z"}
\* \d of the re module matches every Unicode decimal digit; U+0663 is one
\* outside 0-9
DecimalDigits == DigitSet \cup {"U+0663"}
ByteLen(c) ==
    CASE c = "U+00E9" -> 2
      [] c = "U+0663" -> 2
      [] c = "U+20AC" -> 3
      [] c = "U+1F600" -> 4
      [] OTHER -> 1

RECURSIVE utf8_encode(_)
utf8_encode(p) ==
    IF p = <<>> THEN <<>>
    ELSE [k \in 1..ByteLen(Head(p)) |-> [ch |-> Head(p), k |-> k]] \o utf8_encode(Tail(p))

\* bytes.decode('utf-8', errors='ignore'): incomplete sequences are dropped
RECURSIVE utf8_decode_ignore(_)
utf8_decode_ignore(bs) ==
    IF bs = <<>> THEN <<>>
    ELSE IF bs[1].k = 1 /\ Len(bs) >= ByteLen(bs[1].ch)
         THEN <<bs[1].ch>> \o utf8_decode_ignore(SubSeq(bs, ByteLen(bs[1].ch) + 1, Len(bs)))
         ELSE utf8_decode_ignore(Tail(bs))

\* password[:max_bytes]: a cut by characters
Mut_truncate_password_to_bytes(password, max_bytes) ==
    IF Len(password) <= max_bytes THEN password
    ELSE SubSeq(password, 1, max_bytes)
truncate_password_to_bytes(password, max_bytes) ==
    LET encoded == utf8_encode(password)
    IN  IF Len(encoded) <= max_bytes THEN password
        ELSE utf8_decode_ignore(SubSeq(encoded, 1, max_bytes))

\* pwd_context.hash: the bcrypt digest is a function of the bytes it is given
\* (the random salt is carried by the digest and not modelled).
hash_password(password) ==
    [scheme |-> "bcrypt",
     secret |-> truncate_password_to_bytes(password, BcryptMaxBytes)]

\* the plain password given to the hash untruncated
Mut_verify_password(plain_password, hashed_password) ==
    plain_password = hashed_password.secret
\* the plain password cut one byte too early
Mut_verify_password_short(plain_password, hashed_password) ==
    truncate_password_to_bytes(plain_password, BcryptMaxBytes - 1)
        = truncate_password_to_bytes(hashed_password.secret, BcryptMaxBytes - 1)
verify_password(plain_password, hashed_password) ==
    truncate_password_to_bytes(plain_password, BcryptMaxBytes) = hashed_password.secret

\* the digit rule tested before the lowercase rule
Mut_validate_password_strength(v) ==
    IF Len(v) < MinPasswordLen THEN Some("Password must be at least 8 characters")
    ELSE IF ~\E i \in 1..Len(v) : v[i] \in UpperSet
         THEN Some("Password must contain at least one uppercase letter")
    ELSE IF ~\E i \in 1..Len(v) : v[i] \in DecimalDigits
         THEN Some("Password must contain at least one number")
    ELSE IF ~\E i \in 1..Len(v) : v[i] \in LowerSet
         THEN Some("Password must contain at least one lowercase letter")
    ELSE None
\* SignupRequest.validate_password_strength: the error message, or None
validate_password_strength(v) ==
    IF Len(v) < MinPasswordLen THEN Some("Password must be at least 8 characters")
    ELSE IF ~\E i \in 1..Len(v) : v[i] \in UpperSet
         THEN Some("Password must contain at least one uppercase letter")
    ELSE IF ~\E i \in 1..Len(v) : v[i] \in LowerSet
         THEN Some("Password must contain at least one lowercase letter")
    ELSE IF ~\E i \in 1..Len(v) : v[i] \in DecimalDigits
         THEN Some("Password must contain at least one number")
    ELSE None

(***************************************************************************)
(* Inputs of the model.                                                    *)
(***************************************************************************)
Emails == {"a@b.com", "c@d.com"}
PwGood == <<"A", "b", "c", "d", "e", "f", "g", "1">>
PwOther == <<"X", "y", "c", "d", "e", "f", "g", "2">>
PwWeak == <<"a", "b", "c">>
SignupPasswords == {PwGood, PwWeak}
SigninPasswords == {PwGood, PwOther}
Titles == {"t1"}
TickSteps == {Lifetime, Lifetime + 1}

(***************************************************************************)
(* Responses.  resp is the response produced by the step just taken, or    *)
(* NoResp when the step answered no request; at is the time the request    *)
(* arrived (when its dependencies ran).                                    *)
(***************************************************************************)
NoResp == [op |-> "none"]

Response(op, req, at, user_id, status, detail, stmts, body, token, set_cookie) ==
    [op |-> op, req |-> req, at |-> at, user_id |-> user_id, status |-> status,
     detail |-> detail, stmts |-> stmts, body |-> body, token |-> token,
     set_cookie |-> set_cookie]

\* an HTTPException / unhandled exception: no body, no token, no cookie
Failure(op, req, at, user_id, status, detail, stmts) ==
    Response(op, req, at, user_id, status, detail, stmts, None, None, None)

\* inflight is the bag of handlers suspended at the await of their commit
CanSuspend == BagCardinality(inflight) < MaxInFlight
Suspend(f) == inflight (+) SetToBag({f})
Resume(f) == inflight (-) SetToBag({f})

\* clients remember at most MaxIssued of the tokens issued to them
Keep(token) ==
    {issued} \cup (IF Cardinality(issued \cup {token}) <= MaxIssued
                   THEN {issued \cup {token}} ELSE {})

(***************************************************************************)
(* The user store: table users, unique index on email, serial id.          *)
(***************************************************************************)
select_user_by_email(rows, email) == {u \in rows : u.email = email}
select_user_by_id(rows, id) == {u \in rows : u.id = id}

\* Field(unique=True): an INSERT of a row whose email is present is refused
Mut_UniqueViolation(rows, email) == FALSE
UniqueViolation(rows, email) == \E u \in rows : u.email = email

UserResponse(user) ==
    [id |-> user.id, email |-> user.email, created_at |-> user.created_at,
     updated_at |-> user.updated_at]

\* request.client.host of the callers; "unknown" when the request has no client
Clients == {"10.0.0.1", "unknown"}

\* RateLimitMiddleware.__init__: an empty map (a defaultdict of lists)
\* pw is the password the helpers of a run are called with
NoPassword == <<>>
\* twin_counts is the map of a second limiter, for runs compared in pairs
NoTwin == [ip \in Clients |-> <<>>]

LimiterIdle ==
    /\ request_counts = [ip \in Clients |-> <<>>]
    /\ admitted = [ip \in Clients |-> <<>>]
    /\ dispatched = 0

Init ==
    /\ now = 0
    /\ ticks = 0
    /\ users = {}
    /\ nextUserId = 1
    /\ tasks = {}
    /\ nextTaskId = 1
    /\ issued = {}
    /\ inflight = EmptyBag
    /\ resp = NoResp
    /\ LimiterIdle
    /\ pw = NoPassword
    /\ twin_counts = NoTwin

Tick(d) ==
    /\ ticks < MaxTicks
    /\ ticks' = ticks + 1
    /\ now' = now + d
    /\ resp' = NoResp
    /\ UNCHANGED <<users, nextUserId, tasks, nextTaskId, issued, inflight,
                   limiter, pw, twin_counts>>

(***************************************************************************)
(* POST /api/auth/signup                                                   *)
(***************************************************************************)
\* request validation and the existence check, up to the await of the commit
Mut_signup_check(rows, request) ==
    IF validate_password_strength(request.password) # None
    THEN [status |-> 422, detail |-> TheValue(validate_password_strength(request.password))]
    ELSE [status |-> 0, detail |-> ""]
signup_check(rows, request) ==
    LET err == validate_password_strength(request.password)
        existing_user == select_user_by_email(rows, request.email)
    IN  IF err # None THEN [status |-> 422, detail |-> TheValue(err)]
        ELSE IF existing_user # {}
             THEN [status |-> 409, detail |-> "Email already exists"]
             ELSE [status |-> 0, detail |-> ""]

SignupBegin(email, password) ==
    LET request == [email |-> email, password |-> password]
        c == signup_check(users, request)
    IN  /\ IF c.status = 422
           THEN /\ resp' = Failure("signup", request, now, None, 422, c.detail, 0)
                /\ UNCHANGED inflight
           ELSE IF c.status = 409
           THEN /\ resp' = Failure("signup", request, now, None, 409, c.detail, 1)
                /\ UNCHANGED inflight
           ELSE /\ CanSuspend
                /\ inflight' = Suspend([op |-> "signup", req |-> request, at |-> now])
                /\ resp' = NoResp
        /\ UNCHANGED <<now, ticks, users, nextUserId, tasks, nextTaskId, issued,
                       limiter, pw, twin_counts>>

\* session.add + commit + refresh, token, cookie, response
SignupCommit(f) ==
    LET request == f.req
        new_user == [id |-> nextUserId, email |-> request.email,
                     password_hash |-> hash_password(request.password),
                     created_at |-> now, updated_at |-> now]
        token == create_access_token(new_user.id, new_user.email, now)
    IN  /\ f.op = "signup"
        /\ inflight' = Resume(f)
        /\ nextUserId' = nextUserId + 1
        /\ IF UniqueViolation(users, request.email)
           THEN \* IntegrityError escapes the handler
                /\ resp' = Failure("signup", request, f.at, None, 500,
                                   "Internal Server Error", 2)
                /\ UNCHANGED <<users, issued>>
           ELSE /\ users' = users \cup {new_user}
                /\ resp' = Response("signup", request, f.at, None, 201, "", 3,
                                    Some(UserResponse(new_user)), Some(token), Some(token))
                /\ issued' \in Keep(token)
        /\ UNCHANGED <<now, ticks, tasks, nextTaskId,
                       limiter, pw, twin_counts>>

(***************************************************************************)
(* POST /api/auth/signin                                                   *)
(***************************************************************************)
Mut_signin(rows, request, t) ==
    LET user == select_user_by_email(rows, request.email)
    IN  IF user = {}
        THEN Failure("signin", request, t, None, 404, "User not found", 1)
        ELSE IF ~verify_password(request.password, TheValue(user).password_hash)
        THEN Failure("signin", request, t, None, 401, "Invalid email or password", 1)
        ELSE Response("signin", request, t, None, 200, "", 1,
                      Some(UserResponse(TheValue(user))),
                      Some(create_access_token(TheValue(user).id, TheValue(user).email, t)),
                      Some(create_access_token(TheValue(user).id, TheValue(user).email, t)))
signin(rows, request, t) ==
    LET user == select_user_by_email(rows, request.email)
    IN  IF user = {} \/ ~verify_password(request.password, TheValue(user).password_hash)
        THEN Failure("signin", request, t, None, 401, "Invalid email or password", 1)
        ELSE LET token == create_access_token(TheValue(user).id, TheValue(user).email, t)
             IN  Response("signin", request, t, None, 200, "", 1,
                          Some(UserResponse(TheValue(user))), Some(token), Some(token))

Mut_Signin(email, password) ==
    LET r == signin(users, [email |-> email, password |-> password], now)
    IN  /\ resp' = r
        /\ issued' \in (IF r.token = None THEN {issued} ELSE Keep(TheValue(r.token)))
        /\ users' = {IF u.email = email /\ r.token # None
                     THEN [u EXCEPT !.updated_at = now] ELSE u : u \in users}
        /\ UNCHANGED <<now, ticks, nextUserId, tasks, nextTaskId, inflight,
                       limiter, pw, twin_counts>>
Signin(email, password) ==
    LET r == signin(users, [email |-> email, password |-> password], now)
    IN  /\ resp' = r
        /\ issued' \in (IF r.token = None THEN {issued} ELSE Keep(TheValue(r.token)))
        /\ UNCHANGED <<now, ticks, users, nextUserId, tasks, nextTaskId, inflight,
                       limiter, pw, twin_counts>>

\* POST /api/auth/signout: delete_cookie sends an empty auth-token cookie
signout(t) ==
    Response("signout", [auth |-> [header |-> None, cookie |-> None]], t, None, 200, "", 0,
             Some([message |-> "Signed out successfully"]), None, Some(EmptyStr))

Mut_Signout ==
    /\ resp' = signout(now)
    /\ users' = {}
    /\ UNCHANGED <<now, ticks, nextUserId, tasks, nextTaskId, issued, inflight,
                   limiter, pw, twin_counts>>
Signout ==
    /\ resp' = signout(now)
    /\ UNCHANGED <<now, ticks, users, nextUserId, tasks, nextTaskId, issued, inflight,
                   limiter, pw, twin_counts>>

(***************************************************************************)
(* Protected endpoints: Depends(get_current_user_id) runs before the       *)
(* handler body; when it raises, the handler body does not run.            *)
(***************************************************************************)
Bearer(t) == [header |-> Some(<<BearerLit, t>>), cookie |-> None]
Anonymous == [header |-> None, cookie |-> None]

\* GET /api/auth/me
get_current_user(rows, request, t) ==
    LET a == get_current_user_id(request, t)
        req == [auth |-> request]
        user == select_user_by_id(rows, TheValue(a.user_id))
    IN  IF a.user_id = None
        THEN Failure("me", req, t, None, a.status, a.detail, 0)
        ELSE IF user = {}
        THEN Failure("me", req, t, a.user_id, 404, "User not found", 1)
        ELSE Response("me", req, t, a.user_id, 200, "", 1,
                      Some(UserResponse(TheValue(user))), None, None)

Me(r) ==
    /\ resp' = get_current_user(users, r, now)
    /\ UNCHANGED <<now, ticks, users, nextUserId, tasks, nextTaskId, issued, inflight,
                   limiter, pw, twin_counts>>

(***************************************************************************)
(* The task store and /api/tasks.                                          *)
(***************************************************************************)
select_task(rows, id) == {t \in rows : t.id = id}
Proceed(task) == [status |-> 0, detail |-> "", task |-> task]
Refuse(status, detail) == [status |-> status, detail |-> detail]

\* the orderings ORDER BY created_at DESC can return
Mut_OrderByCreatedDesc(rows) ==
    {s \in [1..Cardinality(rows) -> rows] :
        /\ \A i, j \in 1..Cardinality(rows) : i # j => s[i] # s[j]
        /\ \A i, j \in 1..Cardinality(rows) : i < j => s[i].created_at <= s[j].created_at}
OrderByCreatedDesc(rows) ==
    {s \in [1..Cardinality(rows) -> rows] :
        /\ \A i, j \in 1..Cardinality(rows) : i # j => s[i] # s[j]
        /\ \A i, j \in 1..Cardinality(rows) : i < j => s[i].created_at >= s[j].created_at}

\* POST /api/tasks
CreateTask(r, title, description) ==
    LET a == get_current_user_id(r, now)
        req == [auth |-> r, title |-> title, description |-> description]
        new_task == [id |-> nextTaskId, user_id |-> TheValue(a.user_id), title |-> title,
                     description |-> description, is_completed |-> FALSE,
                     created_at |-> now, updated_at |-> now]
    IN  /\ IF a.user_id = None
           THEN /\ resp' = Failure("create_task", req, now, None, a.status, a.detail, 0)
                /\ UNCHANGED <<tasks, nextTaskId>>
           ELSE IF select_user_by_id(users, TheValue(a.user_id)) = {}
           THEN \* foreign key users.id refuses the INSERT: IntegrityError escapes
                /\ nextTaskId <= MaxRows
                /\ nextTaskId' = nextTaskId + 1
                /\ resp' = Failure("create_task", req, now, a.user_id, 500,
                                   "Internal Server Error", 1)
                /\ UNCHANGED tasks
           ELSE /\ nextTaskId <= MaxRows
                /\ nextTaskId' = nextTaskId + 1
                /\ tasks' = tasks \cup {new_task}
                /\ resp' = Response("create_task", req, now, a.user_id, 201, "", 2,
                                    Some(new_task), None, None)
        /\ UNCHANGED <<now, ticks, users, nextUserId, issued, inflight,
                       limiter, pw, twin_counts>>

\* GET /api/tasks
GetTasks(r) ==
    LET a == get_current_user_id(r, now)
        req == [auth |-> r]
    IN  /\ IF a.user_id = None
           THEN resp' = Failure("get_tasks", req, now, None, a.status, a.detail, 0)
           ELSE \E s \in OrderByCreatedDesc({t \in tasks : t.user_id = TheValue(a.user_id)}) :
                    resp' = Response("get_tasks", req, now, a.user_id, 200, "", 1,
                                     Some(s), None, None)
        /\ UNCHANGED <<now, ticks, users, nextUserId, tasks, nextTaskId, issued, inflight,
                       limiter, pw, twin_counts>>

\* update_task, lines 115-132: 404 when missing, 403 when owned by another user
Mut_update_task_check(rows, task_id, user_id) ==
    IF select_task(rows, task_id) = {} THEN Refuse(404, "Task not found")
    ELSE Proceed(TheValue(select_task(rows, task_id)))
update_task_check(rows, task_id, user_id) ==
    LET task == select_task(rows, task_id)
    IN  IF task = {} THEN Refuse(404, "Task not found")
        ELSE IF TheValue(task).user_id # user_id
        THEN Refuse(403, "You do not have permission to update this task")
        ELSE Proceed(TheValue(task))

\* toggle_task_completion, lines 165-175: one query on id and user_id
Mut_toggle_task_check(rows, task_id, user_id) ==
    LET task == select_task(rows, task_id)
    IN  IF task = {} THEN Refuse(404, "Task not found")
        ELSE IF TheValue(task).user_id # user_id
        THEN Refuse(403, "You do not have permission to update this task")
        ELSE Proceed(TheValue(task))
toggle_task_check(rows, task_id, user_id) ==
    LET task == {t \in rows : t.id = task_id /\ t.user_id = user_id}
    IN  IF task = {} THEN Refuse(404, "Task not found")
        ELSE Proceed(TheValue(task))

\* delete_task, lines 202-219
delete_task_check(rows, task_id, user_id) ==
    LET task == select_task(rows, task_id)
    IN  IF task = {} THEN Refuse(404, "Task not found")
        ELSE IF TheValue(task).user_id # user_id
        THEN Refuse(403, "You do not have permission to delete this task")
        ELSE Proceed(TheValue(task))

\* dependency, SELECT and checks of a task mutation, up to the await of its commit
Begin(op, req, a, c) ==
    /\ IF a.user_id = None
       THEN /\ resp' = Failure(op, req, now, None, a.status, a.detail, 0)
            /\ UNCHANGED inflight
       ELSE IF c.status # 0
       THEN /\ resp' = Failure(op, req, now, a.user_id, c.status, c.detail, 1)
            /\ UNCHANGED inflight
       ELSE /\ CanSuspend
            /\ inflight' = Suspend([op |-> op, req |-> req, at |-> now,
                                    user_id |-> a.user_id, loaded |-> c.task])
            /\ resp' = NoResp
    /\ UNCHANGED <<now, ticks, users, nextUserId, tasks, nextTaskId, issued,
                   limiter, pw, twin_counts>>

UpdateBegin(r, task_id, data) ==
    LET a == get_current_user_id(r, now)
    IN  Begin("update_task", [auth |-> r, task_id |-> task_id, data |-> data], a,
              update_task_check(tasks, task_id, TheValue(a.user_id)))

ToggleBegin(r, task_id) ==
    LET a == get_current_user_id(r, now)
    IN  Begin("toggle_task_completion", [auth |-> r, task_id |-> task_id], a,
              toggle_task_check(tasks, task_id, TheValue(a.user_id)))

DeleteBegin(r, task_id) ==
    LET a == get_current_user_id(r, now)
    IN  Begin("delete_task", [auth |-> r, task_id |-> task_id], a,
              delete_task_check(tasks, task_id, TheValue(a.user_id)))

\* the UPDATE a commit flushes: the attributes whose value differs from the
\* loaded one, WHERE id = loaded.id; the row after it, or None when no row matched
\* the whole row written back, inserted again when it is gone (a merge)
Mut_flush_update(rows, loaded, edited) == Some(edited)
flush_update(rows, loaded, edited) ==
    LET cur == select_task(rows, loaded.id)
    IN  IF cur = {} THEN None
        ELSE Some([c \in DOMAIN loaded |->
                      IF edited[c] # loaded[c] THEN edited[c] ELSE TheValue(cur)[c]])

\* commit + refresh + response of a suspended update or toggle
Finish(f, edited) ==
    LET row == flush_update(tasks, f.loaded, edited)
    IN  /\ inflight' = Resume(f)
        /\ IF row = None
           THEN \* StaleDataError escapes the handler
                /\ resp' = Failure(f.op, f.req, f.at, f.user_id, 500,
                                   "Internal Server Error", 2)
                /\ UNCHANGED tasks
           ELSE /\ tasks' = (tasks \ select_task(tasks, f.loaded.id)) \cup row
                /\ resp' = Response(f.op, f.req, f.at, f.user_id, 200, "", 3,
                                    row, None, None)
        /\ UNCHANGED <<now, ticks, users, nextUserId, nextTaskId, issued,
                       limiter, pw, twin_counts>>

\* update_task, lines 134-148
Mut_update_task_stamp(task, task_data, t) ==
    LET t1 == IF task_data.title # None
              THEN [task EXCEPT !.title = TheValue(task_data.title)] ELSE task
        t2 == IF task_data.description # None
              THEN [t1 EXCEPT !.description = task_data.description] ELSE t1
        t3 == IF task_data.is_completed # None
              THEN [t2 EXCEPT !.is_completed = TheValue(task_data.is_completed)] ELSE t2
    IN  [t3 EXCEPT !.updated_at = t, !.created_at = t]
Mut_update_task_edit(task, task_data, t) ==
    LET t1 == IF task_data.title # None
              THEN [task EXCEPT !.title = TheValue(task_data.title)] ELSE task
        t2 == [t1 EXCEPT !.description = task_data.description]
        t3 == IF task_data.is_completed # None
              THEN [t2 EXCEPT !.is_completed = TheValue(task_data.is_completed)] ELSE t2
    IN  [t3 EXCEPT !.updated_at = t]
update_task_edit(task, task_data, t) ==
    LET t1 == IF task_data.title # None
              THEN [task EXCEPT !.title = TheValue(task_data.title)] ELSE task
        t2 == IF task_data.description # None
              THEN [t1 EXCEPT !.description = task_data.description] ELSE t1
        t3 == IF task_data.is_completed # None
              THEN [t2 EXCEPT !.is_completed = TheValue(task_data.is_completed)] ELSE t2
    IN  [t3 EXCEPT !.updated_at = t]

UpdateCommit(f) ==
    /\ f.op = "update_task"
    /\ Finish(f, update_task_edit(f.loaded, f.req.data, now))

\* toggle_task_completion, lines 177-184
toggle_task_edit(task, t) ==
    [task EXCEPT !.is_completed = ~task.is_completed, !.updated_at = t]

ToggleCommit(f) ==
    /\ f.op = "toggle_task_completion"
    /\ Finish(f, toggle_task_edit(f.loaded, now))

\* delete_task, lines 221-226: DELETE WHERE id = loaded.id, commit, 204
DeleteCommit(f) ==
        /\ f.op = "delete_task"
        /\ inflight' = Resume(f)
        /\ tasks' = tasks \ select_task(tasks, f.loaded.id)
        /\ resp' = Response(f.op, f.req, f.at, f.user_id, 204, "", 2, None, None, None)
        /\ UNCHANGED <<now, ticks, users, nextUserId, nextTaskId, issued,
                       limiter, pw, twin_counts>>

(***************************************************************************)
(* Specifications.  Each is the server restricted to the handlers and the  *)
(* inputs named in its next-state relation.                                *)
(***************************************************************************)
Requests == {Bearer(t) : t \in issued} \cup {Anonymous}
TaskIds == 1..MaxTasks
\* with interleaved handlers at most MaxTasks rows are inserted
Room(r) == nextTaskId <= MaxTasks \/ get_current_user_id(r, now).user_id = None
Suspended == BagToSet(inflight)

\* The user store under concurrent signups and signins; the clock stands still.
Next ==
    \/ \E e \in Emails, p \in SignupPasswords : SignupBegin(e, p)
    \/ \E f \in Suspended : SignupCommit(f)
    \/ \E e \in Emails, p \in SigninPasswords : Signin(e, p)
    \/ \E r \in Requests : Me(r)

Spec == Init /\ [][Next]_vars

\* The task store under concurrent task requests of two users who signed up
\* at time 0 and hold their tokens; the clock stands still.
UserRow(id, email, password, t) ==
    [id |-> id, email |-> email, password_hash |-> hash_password(password),
     created_at |-> t, updated_at |-> t]

TaskInit ==
    /\ now = 0
    /\ ticks = 0
    /\ users = {UserRow(1, "a@b.com", PwGood, 0), UserRow(2, "c@d.com", PwGood, 0)}
    /\ nextUserId = 3
    /\ tasks = {}
    /\ nextTaskId = 1
    /\ issued = {create_access_token(1, "a@b.com", 0), create_access_token(2, "c@d.com", 0)}
    /\ inflight = EmptyBag
    /\ resp = NoResp
    /\ LimiterIdle
    /\ pw = NoPassword
    /\ twin_counts = NoTwin

TaskUpdateBodies == {[title |-> None, description |-> None, is_completed |-> Some(TRUE)]}

TaskRequests == {Bearer(t) : t \in issued}

TaskNext ==
    \/ \E r \in TaskRequests, ti \in Titles : Room(r) /\ CreateTask(r, ti, None)
    \/ \E r \in TaskRequests : GetTasks(r)
    \/ \E r \in TaskRequests, id \in TaskIds, data \in TaskUpdateBodies : UpdateBegin(r, id, data)
    \/ \E f \in Suspended : UpdateCommit(f)
    \/ \E r \in TaskRequests, id \in TaskIds : ToggleBegin(r, id)
    \/ \E f \in Suspended : ToggleCommit(f)
    \/ \E r \in TaskRequests, id \in TaskIds : DeleteBegin(r, id)
    \/ \E f \in Suspended : DeleteCommit(f)

TaskSpec == TaskInit /\ [][TaskNext]_vars

(***************************************************************************)
(* Requests as a client can forge them from the tokens it holds.           *)
(***************************************************************************)
Corrupted(t) == [t EXCEPT !.sig.key = "corrupted"]
Tampered(t) == [t EXCEPT !.claims.sub = <<"9">>]
Resigned(t, key, alg) == jwt_encode(t.claims, key, alg)
\* tokens another holder of the shared secret can sign
WithSub(t, sub) == jwt_encode([t.claims EXCEPT !.sub = sub], SECRET, ALGORITHM)
WithoutSub(t) ==
    jwt_encode([email |-> t.claims.email, iat |-> t.claims.iat, exp |-> t.claims.exp,
                iss |-> t.claims.iss], SECRET, ALGORITHM)
Garbage == Text("garbage")

Variants(t) ==
    {t, Corrupted(t), Tampered(t), Resigned(t, "attacker", ALGORITHM),
     Resigned(t, SECRET, "HS512"), WithSub(t, <<"a", "b", "c">>),
     WithSub(t, <<" ", "7">>), WithoutSub(t)}

ForgedTokens == UNION {Variants(t) : t \in issued} \cup {Garbage}

Cookie(c) == [header |-> None, cookie |-> c]

WideRequests ==
    {[header |-> h, cookie |-> None] :
        h \in {None, Some(<<>>), Some(<<BearerLit>>)}
              \cup {Some(<<BearerLit, t>>) : t \in ForgedTokens}
              \cup {Some(<<t>>) : t \in issued}
              \cup {Some(<<BasicLit, t>>) : t \in issued}
              \cup {Some(<<BearerLit, BearerLit, t>>) : t \in issued}}
    \cup
    {[header |-> h, cookie |-> Some(c)] :
        h \in {None, Some(<<>>), Some(<<BearerLit>>), Some(<<BearerLit, Garbage>>)}
              \cup {Some(<<BasicLit, t>>) : t \in issued}
              \cup {Some(<<BearerLit, Corrupted(t)>>) : t \in issued}
              \cup {Some(<<BearerLit, WithSub(t, <<" ", "7">>)>>) : t \in issued},
        c \in issued \cup {Garbage, EmptyStr}}

AuthRequests ==
    {Bearer(t) : t \in issued} \cup {Cookie(Some(t)) : t \in issued}
    \cup {Bearer(WithSub(t, <<"a", "b", "c">>)) : t \in issued}
    \cup {Anonymous, Bearer(Garbage)}

(***************************************************************************)
(* The protected endpoints with a running clock, one handler at a time,    *)
(* for one account that signed up at time 0.                               *)
(***************************************************************************)
AuthInit ==
    /\ now = 0
    /\ ticks = 0
    /\ users = {UserRow(1, "a@b.com", PwGood, 0)}
    /\ nextUserId = 2
    /\ tasks = {}
    /\ nextTaskId = 1
    /\ issued = {create_access_token(1, "a@b.com", 0)}
    /\ inflight = EmptyBag
    /\ resp = NoResp
    /\ LimiterIdle
    /\ pw = NoPassword
    /\ twin_counts = NoTwin

AuthUpdateBodies == {[title |-> Some("t2"), description |-> Some("d2"), is_completed |-> None]}
Alone == inflight = EmptyBag

AuthNext ==
    \/ \E d \in TickSteps : Tick(d)
    \/ \E r \in AuthRequests : Me(r)
    \/ \E r \in AuthRequests, ti \in Titles : Room(r) /\ CreateTask(r, ti, None)
    \/ \E r \in AuthRequests : GetTasks(r)
    \/ \E r \in AuthRequests, id \in TaskIds, data \in AuthUpdateBodies :
           Alone /\ UpdateBegin(r, id, data)
    \/ \E f \in Suspended : UpdateCommit(f)
    \/ \E r \in AuthRequests, id \in TaskIds : Alone /\ ToggleBegin(r, id)
    \/ \E f \in Suspended : ToggleCommit(f)
    \/ \E r \in AuthRequests, id \in TaskIds : Alone /\ DeleteBegin(r, id)
    \/ \E f \in Suspended : DeleteCommit(f)

AuthSpec == AuthInit /\ [][AuthNext]_vars

(***************************************************************************)
(* Token issuance and identity resolution with a running clock: signup,    *)
(* signin and GET /api/auth/me under forged requests.                      *)
(***************************************************************************)
TokenInit ==
    /\ now = 0
    /\ ticks = 0
    /\ users = {}
    /\ nextUserId = FirstUserId
    /\ tasks = {}
    /\ nextTaskId = 1
    /\ issued = {}
    /\ inflight = EmptyBag
    /\ resp = NoResp
    /\ LimiterIdle
    /\ pw = NoPassword
    /\ twin_counts = NoTwin

TokenNext ==
    \/ \E d \in TickSteps : Tick(d)
    \/ \E e \in Emails : Alone /\ SignupBegin(e, PwGood)
    \/ \E f \in Suspended : SignupCommit(f)
    \/ \E e \in Emails, p \in SigninPasswords : Signin(e, p)
    \/ \E r \in WideRequests : Me(r)
    \/ Signout

TokenSpec == TokenInit /\ [][TokenNext]_vars

(***************************************************************************)
(* Claims.                                                                 *)
(***************************************************************************)
Mutations == {"update_task", "toggle_task_completion", "delete_task"}
Outcome(r) ==
    [status |-> r.status, detail |-> r.detail, body |-> r.body, token |-> r.token,
     set_cookie |-> r.set_cookie]

\* C1: an update, toggle or delete resolved to a user other than the owner of
\* an existing task is answered 403 (update, delete) or 404 (toggle) and leaves
\* the task as it is; a task row changes or disappears only in a step that
\* answers a mutation of that task resolved to its owner.
C1_Step ==
    /\ \A t \in tasks :
          t \notin tasks' =>
              /\ resp'.op \in Mutations
              /\ resp'.req.task_id = t.id
              /\ resp'.user_id = Some(t.user_id)
    /\ \A t \in tasks :
          (/\ resp'.op \in Mutations
           /\ resp'.req.task_id = t.id
           /\ resp'.user_id # None
           /\ resp'.user_id # Some(t.user_id))
          => /\ t \in tasks'
             /\ resp'.status = IF resp'.op = "toggle_task_completion" THEN 404 ELSE 403
    /\ \A f \in BagToSet(inflight') :
          f.op \in Mutations => f.user_id = Some(f.loaded.user_id)
C1_OwnerOnly == [][C1_Step]_vars

\* a non-owner's delete of an existing task, already completed by its owner, is refused
C1_Witness ==
    /\ resp.op = "delete_task"
    /\ resp.status = 403
    /\ \E t \in tasks :
          /\ t.id = resp.req.task_id
          /\ resp.user_id # None
          /\ resp.user_id # Some(t.user_id)
          /\ t.is_completed

\* C2: under every interleaving of the check and the insert of concurrent
\* signups, no two user rows share an email or an id, every row carries one
\* password hash, and a signup answers 201 only in a step that adds the one
\* row of its email to a store that held none (so at most one per email).
C2_Rows ==
    /\ \A u, v \in users : (u.email = v.email \/ u.id = v.id) => u = v
    /\ \A u \in users : u.password_hash.scheme = "bcrypt"
C2_Step ==
    /\ users \subseteq users'
    /\ (resp'.op = "signup" /\ resp'.status = 201) =>
          /\ select_user_by_email(users, resp'.req.email) = {}
          /\ Cardinality(select_user_by_email(users', resp'.req.email)) = 1
C2_UniqueEmail == [](C2_Rows) /\ [][C2_Step]_vars

\* a signup succeeds while another signup for the same email has passed its check
C2_Witness ==
    /\ resp.op = "signup"
    /\ resp.status = 201
    /\ \E f \in BagToSet(inflight) : f.op = "signup" /\ f.req.email = resp.req.email

\* C3: a well-formed signup arriving when its email is committed is answered
\* 409 'Email already exists', adds no user and issues no token; a signup whose
\* insert finds no row with its email adds exactly one user and answers 201
\* with a token that extract_user_id_from_token maps to the new user's id.
C3_Step ==
    /\ \A f \in BagToSet(inflight') :
          (f.op = "signup" /\ CopiesIn(f, inflight') > CopiesIn(f, inflight))
          => select_user_by_email(users, f.req.email) = {}
    /\ (/\ resp'.op = "signup"
        /\ inflight' = inflight
        /\ validate_password_strength(resp'.req.password) = None
        /\ select_user_by_email(users, resp'.req.email) # {})
       => /\ resp'.status = 409
          /\ resp'.detail = "Email already exists"
          /\ resp'.token = None /\ resp'.set_cookie = None /\ resp'.body = None
          /\ users' = users
          /\ issued' = issued
    /\ (/\ resp'.op = "signup"
        /\ inflight' # inflight
        /\ select_user_by_email(users, resp'.req.email) = {})
       => /\ resp'.status = 201
          /\ Cardinality(users' \ users) = 1
          /\ users \subseteq users'
          /\ \A u \in users' \ users :
                /\ u.email = resp'.req.email
                /\ resp'.token # None
                /\ extract_user_id_from_token(TheValue(resp'.token), now') = Some(u.id)
                /\ TheValue(resp'.body).id = u.id
C3_SignupOutcome == [][C3_Step]_vars

\* the second signup for a committed email is answered 409
C3_Witness ==
    /\ resp.op = "signup"
    /\ resp.status = 409
    /\ \E u \in users : u.email = resp.req.email

\* C4: every signup is answered 201, 409 or with a validation failure.
C4_DocumentedOutcomes ==
    resp.op = "signup" => resp.status \in {201, 409, 422}

\* C5: a signin with an unregistered email and a signin with a registered
\* email and another password than the stored one get the same response: 401
\* 'Invalid email or password', no body, no token, no cookie.
SigninRefusal ==
    [status |-> 401, detail |-> "Invalid email or password", body |-> None,
     token |-> None, set_cookie |-> None]
C5_SameRefusal ==
    resp.op = "signin" =>
        LET user == select_user_by_email(users, resp.req.email)
        IN  /\ user = {} => Outcome(resp) = SigninRefusal
            /\ (user # {} /\ TheValue(user).password_hash.secret # resp.req.password)
               => Outcome(resp) = SigninRefusal

\* a registered email with a wrong password is refused
C5_Witness ==
    /\ resp.op = "signin"
    /\ resp.status = 401
    /\ \E u \in users : u.email = resp.req.email /\ u.password_hash.secret # resp.req.password

Protected ==
    {"me", "create_task", "get_tasks", "update_task", "toggle_task_completion",
     "delete_task"}

\* the token strings a request carries, in its header or its cookie
Carried(r) ==
    (IF r.header = None THEN {}
     ELSE {TheValue(r.header)[i] : i \in 1..Len(TheValue(r.header))} \ {BearerLit, BasicLit})
    \cup r.cookie

\* tok is a JWT signed with the server secret under HS256, unexpired at time t,
\* whose sub is numeric
GoodToken(tok, t) ==
    /\ tok.form = "jwt"
    /\ tok.alg = "HS256"
    /\ tok.sig = [key |-> SECRET, alg |-> "HS256", over |-> tok.claims]
    /\ tok.claims.exp >= t
    /\ "sub" \in DOMAIN tok.claims
    /\ int(Some(tok.claims.sub)) # None

\* C6: a protected endpoint acts for user u only when the request carries a
\* token signed with the server secret, unexpired when the request arrived and
\* with a numeric sub equal to u; otherwise it answers 403 having executed no
\* statement, and the store and the suspended handlers are as before.
C6_Step ==
    resp'.op \in Protected =>
        /\ resp'.user_id # None =>
              \E tok \in Carried(resp'.req.auth) :
                  /\ GoodToken(tok, resp'.at)
                  /\ int(Some(tok.claims.sub)) = resp'.user_id
        /\ resp'.user_id = None =>
              /\ resp'.status = 403
              /\ resp'.stmts = 0
              /\ resp'.body = None
              /\ UNCHANGED <<users, nextUserId, tasks, nextTaskId, inflight>>
HeaderYieldsToken(h) ==
    /\ h # None
    /\ Len(TheValue(h)) > 0
    /\ TheValue(h)[1] = BearerLit
    /\ \E i \in 1..Len(TheValue(h)) : TheValue(h)[i] # BearerLit
C7_HeaderFirst ==
    resp.op = "me" =>
        LET r == resp.req.auth
            single == IF HeaderYieldsToken(r.header) THEN [r EXCEPT !.cookie = None]
                      ELSE [r EXCEPT !.header = None]
            alone == get_current_user(users, single, resp.at)
        IN  /\ Outcome(resp) = Outcome(alone)
            /\ resp.user_id = alone.user_id
            /\ (/\ HeaderYieldsToken(r.header)
                /\ \A tok \in Carried([r EXCEPT !.cookie = None]) : ~GoodToken(tok, resp.at))
               => resp.status = 403
            /\ (~HeaderYieldsToken(r.header) /\ r.cookie # None /\ r.cookie # Some(EmptyStr)
                /\ GoodToken(TheValue(r.cookie), resp.at))
               => resp.user_id = int(Some(TheValue(r.cookie).claims.sub))

\* a corrupted header token is refused although the cookie holds a valid token
C7_Witness ==
    /\ resp.op = "me"
    /\ resp.status = 403
    /\ \E t \in issued :
          /\ resp.req.auth = [header |-> Some(<<BearerLit, Corrupted(t)>>), cookie |-> Some(t)]
          /\ t.claims.exp >= resp.at

\* C8: the token issued for a user resolves, at issuance time, to that user's
\* id; its claims carry sub = the decimal string of the id, the user's email
\* and iss = 'todo-app-backend'.
CanonicalDecimal(sub, n) ==
    /\ Len(sub) > 0
    /\ \A i \in 1..Len(sub) : sub[i] \in DigitSet
    /\ (Len(sub) > 1 => sub[1] # "0")
    /\ DigitsToNat(sub) = n
C8_RoundTrip ==
    (resp.op \in {"signup", "signin"} /\ resp.token # None) =>
        LET tok == TheValue(resp.token)
            user == TheValue(resp.body)
            claims == verify_token(tok, now)
        IN  /\ \E u \in users : u.id = user.id /\ u.email = user.email
            /\ extract_user_id_from_token(tok, now) = Some(user.id)
            /\ claims # None
            /\ CanonicalDecimal(TheValue(claims).sub, user.id)
            /\ TheValue(claims).email = user.email
            /\ TheValue(claims).iss = "todo-app-backend"

\* a signin issues a token for a user whose id has two digits
C8_Witness ==
    /\ resp.op = "signin"
    /\ resp.status = 200
    /\ TheValue(resp.body).id >= 10
    /\ Len(TheValue(resp.token).claims.sub) = 2

\* C9: an expired token, a token with a corrupted signature and a malformed
\* string all make verify_token and extract_user_id_from_token return None,
\* and get the same 403 'Invalid or expired authentication token'.
InvalidTokenRefusal ==
    [status |-> 403, detail |-> "Invalid or expired authentication token",
     body |-> None, token |-> None, set_cookie |-> None]
C9_Refused(tok) ==
    /\ verify_token(tok, resp.at) = None
    /\ extract_user_id_from_token(tok, resp.at) = None
    /\ Outcome(resp) = InvalidTokenRefusal
C9_SameFailure ==
    resp.op = "me" =>
        /\ \A t \in issued :
              /\ (resp.req.auth = Bearer(t) /\ t.claims.exp < resp.at) => C9_Refused(t)
              /\ resp.req.auth = Bearer(Corrupted(t)) => C9_Refused(Corrupted(t))
        /\ resp.req.auth = Bearer(Garbage) => C9_Refused(Garbage)

\* an issued token presented after its exp is refused
C9_Witness ==
    /\ resp.op = "me"
    /\ resp.status = 403
    /\ \E t \in issued : resp.req.auth = Bearer(t) /\ t.claims.exp < resp.at

\* C10: every issued token has exp = iat + 7 days and is accepted by
\* verify_token, and by a request presenting it, exactly at the times up to
\* and including exp, whatever signups, signins and requests came in between.
C10_Lifetime ==
    /\ \A t \in issued :
          /\ t.claims.exp = t.claims.iat + 7 * 24 * 60 * 60
          /\ t.claims.iat <= now
          /\ (verify_token(t, now) # None) <=> (now <= t.claims.exp)
    /\ \A t \in issued :
          (resp.op = "me" /\ resp.req.auth = Bearer(t))
          => ((resp.status = 200) <=> (resp.at <= t.claims.exp))

\* an issued token is accepted at the very second of its exp
C10_Witness ==
    /\ resp.op = "me"
    /\ resp.status = 200
    /\ \E t \in issued : resp.req.auth = Bearer(t) /\ t.claims.exp = resp.at

\* C11: a signout leaves the server's state as it was, and in every state,
\* whatever signouts and signins came before, each token issued to a user
\* resolves to that user's id when presented in the Authorization header up
\* to its exp; a /me request presenting it is answered with that user.
Holder(t) == {u \in users : u.email = t.claims.email}
C11_Resolves ==
    \A t \in issued :
        /\ Cardinality(Holder(t)) = 1
        /\ now <= t.claims.exp =>
              get_current_user_id(Bearer(t), now).user_id = Some(TheValue(Holder(t)).id)
        /\ (resp.op = "me" /\ resp.req.auth = Bearer(t) /\ resp.at <= t.claims.exp) =>
              /\ resp.status = 200
              /\ resp.user_id = Some(TheValue(Holder(t)).id)
              /\ resp.body = Some(UserResponse(TheValue(Holder(t))))
C11_Step ==
    resp'.op = "signout" =>
        /\ resp'.status = 200
        /\ UNCHANGED <<users, nextUserId, tasks, nextTaskId, issued, inflight>>
C11_NoRevocation == [](C11_Resolves) /\ [][C11_Step]_vars

\* right after a signout, at a later time than the signup, one user holds
\* two different tokens and both still resolve
C11_Witness ==
    /\ resp.op = "signout"
    /\ now > 0
    /\ \E t1, t2 \in issued :
          /\ t1 # t2
          /\ t1.claims.email = t2.claims.email
          /\ now <= t1.claims.exp
          /\ get_current_user_id(Bearer(t1), now).user_id # None
          /\ get_current_user_id(Bearer(t2), now).user_id
                = get_current_user_id(Bearer(t1), now).user_id

(***************************************************************************)
(* RateLimitMiddleware.  dispatch runs around every route: the steps of    *)
(* the specifications above are what happens inside its call_next.  An     *)
(* entry of request_counts[ip] is the pair <<timestamp, count>>.           *)
(***************************************************************************)
requests_per_minute == 60
window_size == 60
Mut_ExemptPaths == {"/health", "/"}
ExemptPaths == {"/health", "/", "/docs", "/openapi.json"}
Paths == {"/health", "/", "/docs", "/openapi.json", "/api/tasks"}

Mut_clean_old_requests(counts, ip, current_time) ==
    [counts EXCEPT ![ip] = SelectSeq(@, LAMBDA e : e[1] >= current_time - window_size + 2)]
clean_old_requests(counts, ip, current_time) ==
    [counts EXCEPT ![ip] = SelectSeq(@, LAMBDA e : e[1] > current_time - window_size)]

RECURSIVE SumCounts(_)
SumCounts(entries) ==
    IF entries = <<>> THEN 0 ELSE Head(entries)[2] + SumCounts(Tail(entries))

\* _get_request_count prunes the client's list, then sums the counts left
get_request_count(counts, ip, current_time) ==
    SumCounts(clean_old_requests(counts, ip, current_time)[ip])

Max(a, b) == IF a >= b THEN a ELSE b

RateLimitHeaders(request_count, current_time) ==
    [limit |-> str(requests_per_minute),
     remaining |-> str(Max(0, requests_per_minute - request_count - 1)),
     reset |-> str(current_time + window_size)]

\* what the client receives for a dispatch
Dispatched(ip, path, at, let_through, status, headers, exc) ==
    [op |-> "dispatch", ip |-> ip, path |-> path, at |-> at,
     let_through |-> let_through, status |-> status, headers |-> headers, exc |-> exc]

\* the HTTPException raised at the limit.  The middleware stands outside the
\* application's exception handlers (app.add_middleware), so the exception
\* reaches the server's error handler like any unhandled one
RateLimitExceeded ==
    [status_code |-> 429,
     detail |-> "Rate limit exceeded. Maximum 60 requests per minute."]
Unhandled(ip, path, at, let_through, exc) ==
    Dispatched(ip, path, at, let_through, 500, None, exc)

\* the refused request recorded like an admitted one
Mut_Dispatch(ip, path) ==
    /\ dispatched < MaxRequests
    /\ dispatched' = dispatched + 1
    /\ IF path \in ExemptPaths
       THEN /\ resp' = Dispatched(ip, path, now, TRUE, 200, None, None)
            /\ UNCHANGED <<request_counts, admitted, inflight>>
       ELSE LET cleaned == clean_old_requests(request_counts, ip, now)
                request_count == get_request_count(request_counts, ip, now)
            IN  IF request_count >= requests_per_minute
                THEN /\ request_counts' = [cleaned EXCEPT ![ip] = Append(@, <<now, 1>>)]
                     /\ resp' = Unhandled(ip, path, now, FALSE, Some(RateLimitExceeded))
                     /\ UNCHANGED <<admitted, inflight>>
                ELSE /\ CanSuspend
                     /\ request_counts' = [cleaned EXCEPT ![ip] = Append(@, <<now, 1>>)]
                     /\ admitted' = [admitted EXCEPT ![ip] = Append(@, now)]
                     /\ inflight' = Suspend([op |-> "dispatch", ip |-> ip, path |-> path,
                                             at |-> now, request_count |-> request_count])
                     /\ resp' = NoResp
    /\ UNCHANGED <<now, ticks, users, nextUserId, tasks, nextTaskId, issued, pw, twin_counts>>
\* dispatch up to its await of call_next
Dispatch(ip, path) ==
    /\ dispatched < MaxRequests
    /\ dispatched' = dispatched + 1
    /\ IF path \in ExemptPaths
       THEN /\ resp' = Dispatched(ip, path, now, TRUE, 200, None, None)
            /\ UNCHANGED <<request_counts, admitted, inflight>>
       ELSE LET cleaned == clean_old_requests(request_counts, ip, now)
                request_count == get_request_count(request_counts, ip, now)
            IN  IF request_count >= requests_per_minute
                THEN /\ request_counts' = cleaned
                     /\ resp' = Unhandled(ip, path, now, FALSE, Some(RateLimitExceeded))
                     /\ UNCHANGED <<admitted, inflight>>
                ELSE /\ CanSuspend
                     /\ request_counts' = [cleaned EXCEPT ![ip] = Append(@, <<now, 1>>)]
                     /\ admitted' = [admitted EXCEPT ![ip] = Append(@, now)]
                     /\ inflight' = Suspend([op |-> "dispatch", ip |-> ip, path |-> path,
                                             at |-> now, request_count |-> request_count])
                     /\ resp' = NoResp
    /\ UNCHANGED <<now, ticks, users, nextUserId, tasks, nextTaskId, issued, pw, twin_counts>>

\* call_next returns the route's response, or raises what the route left
\* unhandled (the IntegrityError of a signup, for one)
Outcomes == {"returned", "raised"}
DispatchReturn(f, outcome) ==
    /\ f.op = "dispatch"
    /\ inflight' = Resume(f)
    /\ resp' = IF outcome = "raised"
               THEN Unhandled(f.ip, f.path, f.at, TRUE, None)
               ELSE Dispatched(f.ip, f.path, f.at, TRUE, 200,
                               Some(RateLimitHeaders(f.request_count, f.at)), None)
    /\ UNCHANGED <<now, ticks, users, nextUserId, tasks, nextTaskId, issued,
                   request_counts, admitted, dispatched, pw, twin_counts>>

\* a client that has just been let through k times
Burst(k, t) == [i \in 1..k |-> <<t, 1>>]
Preloads == {0, requests_per_minute - 2}
\* the client that sent the earlier burst
Busy == "10.0.0.1"
LimitTickSteps == {window_size - 1, window_size, window_size + 1}

LimitInit ==
    /\ now = 0
    /\ ticks = 0
    /\ users = {}
    /\ nextUserId = 1
    /\ tasks = {}
    /\ nextTaskId = 1
    /\ issued = {}
    /\ inflight = EmptyBag
    /\ resp = NoResp
    /\ \E k \in Preloads :
          /\ request_counts = [ip \in Clients |-> Burst(IF ip = Busy THEN k ELSE 0, 0)]
          /\ admitted = [ip \in Clients |-> [i \in 1..(IF ip = Busy THEN k ELSE 0) |-> 0]]
    /\ dispatched = 0
    /\ pw = NoPassword
    /\ twin_counts = NoTwin

LimitNext ==
    \/ \E d \in LimitTickSteps : Tick(d)
    \/ \E ip \in Clients, path \in Paths : Dispatch(ip, path)
    \/ \E f \in Suspended, outcome \in Outcomes : DispatchReturn(f, outcome)

LimitSpec == LimitInit /\ [][LimitNext]_vars

\* requests of client ip let through with a timestamp in (t - 60, t]
InWindow(ip, t) ==
    Cardinality({i \in DOMAIN admitted[ip] : admitted[ip][i] > t - 60 /\ admitted[ip][i] <= t})
Limited(path) == path \notin {"/health", "/", "/docs", "/openapi.json"}

\* the admit/reject decisions follow the window: a request is let through
\* only when fewer than 60 were let through in the 60 seconds before it, and
\* refused only when 60 were
C12_Step ==
    /\ \A ip \in Clients :
          admitted'[ip] # admitted[ip] =>
              /\ admitted'[ip] = Append(admitted[ip], now)
              /\ InWindow(ip, now) < 60
    /\ (resp'.op = "dispatch" /\ ~resp'.let_through) =>
              /\ Limited(resp'.path)
              /\ InWindow(resp'.ip, now) = 60
              /\ admitted' = admitted
C12_Decision == [][C12_Step]_vars

\* C12: when 60 requests of a client were admitted within the last 60
\* seconds the next one is rejected with 429 (and a request arriving once
\* those 60 are more than 60 seconds old is admitted): a refused request is
\* answered with status 429.
C12_RejectedWith429 ==
    (resp.op = "dispatch" /\ ~resp.let_through) => resp.status = 429

\* the 61st request within the window is refused
C12_Refused ==
    /\ resp.op = "dispatch"
    /\ ~resp.let_through
    /\ InWindow(resp.ip, resp.at) = 60
\* a request is let through at the time the 60 of the burst are 60 seconds old
C12_AdmittedAgain ==
    \E ip \in Clients :
        /\ InWindow(ip, 0) = 60
        /\ now >= 60
        /\ Len(admitted[ip]) = 61
        /\ admitted[ip][61] = now

\* C13: with dispatches suspended at their await of call_next and
\* interleaved, the number of requests let through for one client address
\* with timestamps in any window (t - 60, t] never exceeds 60, and the list
\* the limiter keeps for the client holds exactly the requests let through
\* in the window ending now or at its last pruning.
WindowEnds(ip) == {admitted[ip][i] : i \in DOMAIN admitted[ip]} \cup {now}
C13_WindowBound ==
    \A ip \in Clients :
        /\ \A t \in WindowEnds(ip) : InWindow(ip, t) <= 60
        /\ Len(request_counts[ip]) <= 60
        /\ \A i \in DOMAIN request_counts[ip] :
              /\ request_counts[ip][i][2] = 1
              /\ request_counts[ip][i][1] <= now
        /\ InWindow(ip, now) <= Len(request_counts[ip])

\* two requests of one client are suspended in their routes while a third
\* request of that client finds the window full and is refused
C13_Witness ==
    /\ resp.op = "dispatch"
    /\ ~resp.let_through
    /\ InWindow(resp.ip, now) = 60
    /\ Cardinality({f \in Suspended : f.op = "dispatch" /\ f.ip = resp.ip}) = 2

\* C14: a request to /health, /, /docs or /openapi.json is let through
\* whatever the client's count, and its dispatch leaves the recorded
\* requests of every client as they were (nothing added, nothing pruned).
C14_Step ==
    (resp'.op = "dispatch" /\ resp'.path \in {"/health", "/", "/docs", "/openapi.json"}) =>
        /\ resp'.let_through
        /\ resp'.exc = None
        /\ resp'.status = 200
        /\ UNCHANGED <<request_counts, admitted, inflight>>
C14_ExemptPaths == [][C14_Step]_vars

\* /docs answered for a client whose window is full and whose list still
\* holds entries older than the window
C14_Witness ==
    /\ resp.op = "dispatch"
    /\ resp.path = "/docs"
    /\ resp.let_through
    /\ resp.ip = Busy
    /\ now >= 60
    /\ Len(request_counts[Busy]) = 60
    /\ request_counts[Busy][1][1] = 0

\* the values of the headers, when the route returned a response: Limit is
\* 60, Remaining is 60 minus the requests let through in the window at the
\* request's time including this one, Reset is the request's time + 60
C15_Step ==
    /\ \A f \in BagToSet(inflight') \ BagToSet(inflight) :
          f.op = "dispatch" =>
              /\ f.at = now
              /\ f.request_count = InWindow(f.ip, now)
              /\ f.request_count < 60
    /\ (resp'.op = "dispatch" /\ Limited(resp'.path) /\ resp'.headers # None) =>
          \E f \in Suspended :
              /\ inflight' = Resume(f)
              /\ resp'.at = f.at
              /\ TheValue(resp'.headers).limit = <<"6", "0">>
              /\ DigitsToNat(TheValue(resp'.headers).remaining) = 60 - (f.request_count + 1)
              /\ DigitsToNat(TheValue(resp'.headers).reset) = f.at + 60
C15_Values == [][C15_Step]_vars

\* C15: every response to an admitted non-exempt request carries
\* X-RateLimit-Limit, X-RateLimit-Remaining and X-RateLimit-Reset (and a
\* request over the limit gets 429).
C15_HeadersOnAdmitted ==
    (resp.op = "dispatch" /\ Limited(resp.path) /\ resp.let_through) => resp.headers # None

\* a response with Remaining = 0 for the 60th request of the window
C15_LastAdmitted ==
    /\ resp.op = "dispatch"
    /\ resp.headers # None
    /\ TheValue(resp.headers).remaining = <<"0">>
    /\ InWindow(resp.ip, resp.at) = 60

(***************************************************************************)
(* The task store with requests handled one at a time, for two users who   *)
(* signed up at time 0, with a running clock and up to MaxRows tasks.      *)
(***************************************************************************)
RowIds == 1..MaxRows
BoardTickSteps == {1}
BoardDescriptions == {Some("d1")}
\* title and is_completed provided with description omitted, and description
\* alone provided
BoardUpdateBodies ==
    {[title |-> Some("t2"), description |-> None, is_completed |-> Some(TRUE)],
     [title |-> None, description |-> Some("d2"), is_completed |-> None]}

BoardNext ==
    \/ \E d \in BoardTickSteps : Alone /\ Tick(d)
    \/ \E r \in TaskRequests, ti \in Titles, de \in BoardDescriptions :
           Alone /\ CreateTask(r, ti, de)
    \/ \E r \in TaskRequests : Alone /\ GetTasks(r)
    \/ \E r \in TaskRequests, id \in RowIds : Alone /\ ToggleBegin(r, id)
    \/ \E f \in Suspended : ToggleCommit(f)
    \/ \E r \in TaskRequests, id \in RowIds : Alone /\ DeleteBegin(r, id)
    \/ \E f \in Suspended : DeleteCommit(f)

BoardSpec == TaskInit /\ [][BoardNext]_vars

\* the same without listing, with updates; both users create tasks, the
\* mutations are requested by one of them
EditorRequests == {Bearer(t) : t \in {u \in issued : u.claims.email = "a@b.com"}}
EditNext ==
    \/ \E d \in BoardTickSteps : Alone /\ Tick(d)
    \/ \E r \in TaskRequests, ti \in Titles, de \in BoardDescriptions :
           Alone /\ CreateTask(r, ti, de)
    \/ \E r \in EditorRequests, id \in RowIds, data \in BoardUpdateBodies :
           Alone /\ UpdateBegin(r, id, data)
    \/ \E f \in Suspended : UpdateCommit(f)
    \/ \E r \in EditorRequests, id \in RowIds : Alone /\ ToggleBegin(r, id)
    \/ \E f \in Suspended : ToggleCommit(f)
    \/ \E r \in EditorRequests, id \in RowIds : Alone /\ DeleteBegin(r, id)
    \/ \E f \in Suspended : DeleteCommit(f)

EditSpec == TaskInit /\ [][EditNext]_vars

\* C16: GET /api/tasks for the user the token resolves to returns each
\* existing task of that user exactly once, no task of another user and no
\* task that is not in the store, newest created_at first.
C16_List ==
    (resp.op = "get_tasks" /\ resp.status = 200) =>
        LET s == TheValue(resp.body)
            u == TheValue(resp.user_id)
        IN  /\ \E t \in issued :
                  resp.req.auth = Bearer(t) /\ DigitsToNat(t.claims.sub) = u
            /\ {s[i] : i \in DOMAIN s} = {t \in tasks : t.user_id = u}
            /\ \A i, j \in DOMAIN s : i # j => s[i].id # s[j].id
            /\ \A i, j \in DOMAIN s : i < j => s[i].created_at >= s[j].created_at

\* a list of two tasks created at different times, the newer one first
C16_Witness ==
    /\ resp.op = "get_tasks"
    /\ resp.status = 200
    /\ Len(TheValue(resp.body)) = 2
    /\ TheValue(resp.body)[1].created_at > TheValue(resp.body)[2].created_at
\* a list that leaves out the other user's task and a list after a delete
C16_OthersLeftOut ==
    /\ resp.op = "get_tasks"
    /\ resp.status = 200
    /\ Len(TheValue(resp.body)) = 1
    /\ Cardinality(tasks) = 2
C16_AfterDelete ==
    /\ resp.op = "get_tasks"
    /\ resp.status = 200
    /\ Cardinality(tasks) < nextTaskId - 1
    /\ Len(TheValue(resp.body)) = Cardinality(tasks)

\* C17: a created task gets the user id the request's token resolves to (the
\* request carries no other user field), a fresh id and the time of the call
\* as created_at; no later step changes the user_id or created_at of a task
\* id, and an id once given is not given again.
C17_Step ==
    /\ (resp'.op = "create_task" /\ resp'.status = 201) =>
          \E t \in issued, row \in tasks' :
              /\ resp'.req.auth = Bearer(t)
              /\ DOMAIN resp'.req = {"auth", "title", "description"}
              /\ tasks' = tasks \cup {row}
              /\ row.user_id = DigitsToNat(t.claims.sub)
              /\ row.id >= nextTaskId
              /\ nextTaskId' > row.id
              /\ row.created_at = now
              /\ resp'.body = Some(row)
    /\ \A old \in tasks, new \in tasks' :
          old.id = new.id => (new.user_id = old.user_id /\ new.created_at = old.created_at)
    /\ \A new \in tasks' : new.id < nextTaskId'
    /\ (tasks' \ tasks # {} /\ \A new \in tasks' \ tasks : \A old \in tasks : old.id # new.id)
          => resp'.op = "create_task"
C17_OwnerFixed == [][C17_Step]_vars

\* an update and a toggle have been applied to a task after its creation
C17_Witness ==
    /\ resp.op = "toggle_task_completion"
    /\ resp.status = 200
    /\ TheValue(resp.body).title = "t2"
    /\ TheValue(resp.body).updated_at > TheValue(resp.body).created_at
    /\ TheValue(resp.body).user_id = TheValue(resp.user_id)


(***************************************************************************)
(* C18: result codes of task mutations by an authenticated user.           *)
(***************************************************************************)
Missing(rows, task_id) == select_task(rows, task_id) = {}
Foreign(rows, task_id, user_id) ==
    \E t \in select_task(rows, task_id) : Some(t.user_id) # user_id

\* the code a mutation is to be answered with when it reads the rows
ExpectedStatus(op, rows, task_id, user_id) ==
    IF Missing(rows, task_id) THEN 404
    ELSE IF Foreign(rows, task_id, user_id)
    THEN (IF op = "toggle_task_completion" THEN 404 ELSE 403)
    ELSE IF op = "delete_task" THEN 204 ELSE 200

\* C18: a mutation by an authenticated user is answered 404 exactly when no
\* task with that id exists when the handler reads it, 403 (update, delete) or
\* 404 (toggle) exactly when the task exists and belongs to another user, and
\* otherwise 200 with the task (update, toggle) or 204 (delete).  A refusal is
\* answered in the step that reads; a handler that read its own existing task
\* is suspended at its commit and answers when the commit is done.
C18_Step ==
    /\ \* refused on reading
       (resp'.op \in Mutations /\ resp'.user_id # None /\ resp'.stmts = 1) =>
           /\ resp'.status = ExpectedStatus(resp'.op, tasks, resp'.req.task_id, resp'.user_id)
           /\ resp'.status \in {403, 404}
    /\ \* let through on reading: the task exists and is the caller's
       \A f \in BagToSet(inflight') :
           (f.op \in Mutations /\ CopiesIn(f, inflight') > CopiesIn(f, inflight)) =>
               /\ ExpectedStatus(f.op, tasks, f.req.task_id, f.user_id) \in {200, 204}
               /\ f.loaded \in tasks
    /\ \* answered after the commit
       (resp'.op \in Mutations /\ resp'.user_id # None /\ resp'.stmts # 1) =>
           \E f \in Suspended :
               /\ inflight' = Resume(f)
               /\ f.op = resp'.op /\ f.req = resp'.req /\ f.user_id = resp'.user_id
               /\ resp'.status = (IF f.op = "delete_task" THEN 204 ELSE 200)
               /\ f.op = "delete_task" => resp'.body = None
               /\ f.op # "delete_task" =>
                     /\ resp'.body # None
                     /\ TheValue(resp'.body).id = f.req.task_id
                     /\ resp'.body = select_task(tasks', f.req.task_id)
C18_ResultCodes == [][C18_Step]_vars

\* a toggle of another user's existing task answered 404
C18_ToggleHidesForeign ==
    /\ resp.op = "toggle_task_completion"
    /\ resp.status = 404
    /\ Foreign(tasks, resp.req.task_id, resp.user_id)
\* an update of a task that its owner read before it was deleted, answered
C18_StaleAnswered ==
    /\ resp.op \in {"update_task", "toggle_task_completion"}
    /\ resp.stmts = 2
    /\ Missing(tasks, resp.req.task_id)


(***************************************************************************)
(* C19: what a successful update writes.                                   *)
(***************************************************************************)
Updatable == {"title", "description", "is_completed"}
\* the value the request provides for a field, as it is stored
Provided(data, c) ==
    IF c = "description" THEN data[c] ELSE TheValue(data[c])

\* C19: a successful update sets every field among title, description and
\* is_completed that the request provides to the provided value, keeps the
\* stored value of a field the request leaves null, sets updated_at to the
\* time of the call, and leaves id, user_id and created_at of the task and
\* every other task as they are.
C19_Step ==
    (resp'.op = "update_task" /\ resp'.status = 200) =>
        \E old \in tasks, new \in tasks' :
            /\ old.id = resp'.req.task_id
            /\ new.id = old.id
            /\ tasks' \ {new} = tasks \ {old}
            /\ resp'.body = Some(new)
            /\ \A c \in Updatable :
                  new[c] = IF resp'.req.data[c] # None
                           THEN Provided(resp'.req.data, c) ELSE old[c]
            /\ new.updated_at = now
            /\ resp'.at <= new.updated_at
            /\ new.user_id = old.user_id
            /\ new.created_at = old.created_at
C19_PartialUpdate == [][C19_Step]_vars

\* an update that provided the description alone, answered after the clock
\* moved, next to a task of another user
C19_DescriptionOnly ==
    /\ resp.op = "update_task"
    /\ resp.status = 200
    /\ resp.req.data.title = None
    /\ TheValue(resp.body).description = Some("d2")
    /\ TheValue(resp.body).updated_at > TheValue(resp.body).created_at
    /\ \E t \in tasks : t.user_id # TheValue(resp.body).user_id
\* an update that provided is_completed = TRUE and was answered 200 with a
\* task that is not completed
C19_ProvidedNotStored ==
    /\ resp.op = "update_task"
    /\ resp.status = 200
    /\ resp.req.data.is_completed = Some(TRUE)
    /\ ~TheValue(resp.body).is_completed
    /\ resp.body \subseteq tasks


(***************************************************************************)
(* C20: what signin and signup write and what they hand out.               *)
(***************************************************************************)
\* a token issued now for the user row, returned and set as the cookie
HandsOut(r, row, t) ==
    /\ r.token # None
    /\ r.set_cookie = r.token
    /\ TheValue(r.token).claims.iat = t
    /\ TheValue(r.token).claims.sub = str(row.id)
    /\ TheValue(r.token).claims.email = row.email
    /\ r.at <= t

\* C20: a signin, answered 200 or 401, leaves the users and the tasks as they
\* are; a signup answered 201 adds exactly one user row and nothing else
\* changes, and no other step changes the users; each success returns a token
\* whose iat is the time of the call and sets the auth-token cookie to that
\* token; a failure returns no token and sets no cookie.
C20_Step ==
    /\ resp'.op = "signin" =>
          /\ UNCHANGED <<users, nextUserId, tasks, nextTaskId>>
          /\ resp'.status \in {200, 401}
          /\ resp'.status = 200 =>
                \E row \in users :
                    /\ row.email = resp'.req.email
                    /\ HandsOut(resp', row, now)
                    /\ resp'.at = now
          /\ resp'.status = 401 =>
                /\ resp'.token = None /\ resp'.set_cookie = None
                /\ UNCHANGED issued
    /\ (resp'.op = "signup" /\ resp'.status = 201) =>
          /\ UNCHANGED <<tasks, nextTaskId>>
          /\ \E row \in users' :
                /\ row \notin users
                /\ users' = users \cup {row}
                /\ row.email = resp'.req.email
                /\ \A u \in users : u.id # row.id /\ u.email # row.email
                /\ HandsOut(resp', row, now)
    /\ (resp'.op = "signup" /\ resp'.status # 201) =>
          /\ UNCHANGED <<users, tasks, nextTaskId, issued>>
          /\ resp'.token = None /\ resp'.set_cookie = None
    /\ users' # users => (resp'.op = "signup" /\ resp'.status = 201)
C20_Effects == [][C20_Step]_vars

\* a signin answered 200 after the clock moved, with a token issued then
C20_Witness ==
    /\ resp.op = "signin"
    /\ resp.status = 200
    /\ now > 0
    /\ TheValue(resp.token).claims.iat = now
    /\ resp.set_cookie = resp.token
    /\ \E u \in users : u.email = resp.req.email /\ u.updated_at < now
\* a signup answered 201 later than it arrived
C20_SignupLater ==
    /\ resp.op = "signup"
    /\ resp.status = 201
    /\ resp.at < TheValue(resp.token).claims.iat
\* a signin refused for a wrong password
C20_SigninRefused ==
    /\ resp.op = "signin"
    /\ resp.status = 401
    /\ \E u \in users : u.email = resp.req.email


(***************************************************************************)
(* The password helpers applied to passwords around the 72-byte limit.     *)
(* A password is a strong head, a run of "a" and a tail of characters of   *)
(* one to four bytes.                                                      *)
(***************************************************************************)
MaxTail == 2
StrongHead == <<"A", "b", "1">>
Pad(n) == [i \in 1..n |-> "a"]
TailChars == {"z", "U+00E9", "U+20AC", "U+1F600"}
Tails == UNION {[1..n -> TailChars] : n \in 0..MaxTail}
\* the bytes before the tail: from 6 below the limit to 1 above it
HeadBytes == (BcryptMaxBytes - 6)..(BcryptMaxBytes + 1)
LongPasswords ==
    {StrongHead \o Pad(n - Len(StrongHead)) \o t : n \in HeadBytes, t \in Tails}

\* a call of a helper and what it returned
Returned(fn, args, out) == [op |-> fn, req |-> args, body |-> out]

Truncate ==
    /\ resp' = Returned("truncate_password_to_bytes", pw,
                        truncate_password_to_bytes(pw, BcryptMaxBytes))
    /\ UNCHANGED <<now, ticks, users, nextUserId, tasks, nextTaskId, issued, inflight,
                   limiter, pw, twin_counts>>

\* truncate_password_to_bytes applied to its own result
TruncateTwice ==
    /\ resp' = Returned("truncate_password_to_bytes twice", pw,
                        truncate_password_to_bytes(
                            truncate_password_to_bytes(pw, BcryptMaxBytes), BcryptMaxBytes))
    /\ UNCHANGED <<now, ticks, users, nextUserId, tasks, nextTaskId, issued, inflight,
                   limiter, pw, twin_counts>>

HashPassword ==
    /\ resp' = Returned("hash_password", pw, hash_password(pw))
    /\ UNCHANGED <<now, ticks, users, nextUserId, tasks, nextTaskId, issued, inflight,
                   limiter, pw, twin_counts>>

\* the passwords tried against the digest of pw
ProbeTails == {<<>>} \cup {<<c>> : c \in TailChars}
Probes ==
    {StrongHead \o Pad(n - Len(StrongHead)) \o t :
        n \in {BcryptMaxBytes - 1, BcryptMaxBytes}, t \in ProbeTails} \cup {PwGood, PwOther}

VerifyPassword(q) ==
    /\ resp' = Returned("verify_password", <<q, hash_password(pw)>>,
                        verify_password(q, hash_password(pw)))
    /\ UNCHANGED <<now, ticks, users, nextUserId, tasks, nextTaskId, issued, inflight,
                   limiter, pw, twin_counts>>

PwInit ==
    /\ now = 0
    /\ ticks = 0
    /\ users = {}
    /\ nextUserId = FirstUserId
    /\ tasks = {}
    /\ nextTaskId = 1
    /\ issued = {}
    /\ inflight = EmptyBag
    /\ resp = NoResp
    /\ LimiterIdle
    /\ pw \in LongPasswords \cup {PwGood}
    /\ twin_counts = NoTwin

\* a run makes one call
PwNext ==
    \/ resp = NoResp /\ Truncate
    \/ resp = NoResp /\ TruncateTwice
    \/ resp = NoResp /\ HashPassword
    \/ \E q \in Probes : resp = NoResp /\ VerifyPassword(q)

PwSpec == PwInit /\ [][PwNext]_vars

(***************************************************************************)
(* C21                                                                     *)
(***************************************************************************)
RECURSIVE Utf8Len(_)
Utf8Len(p) == IF p = <<>> THEN 0 ELSE ByteLen(Head(p)) + Utf8Len(Tail(p))

\* the longest prefix of whole characters of p that encodes to at most n bytes
LongestPrefix(p, n) ==
    LET k == CHOOSE k \in 0..Len(p) :
                 /\ Utf8Len(SubSeq(p, 1, k)) <= n
                 /\ \A j \in (k + 1)..Len(p) : Utf8Len(SubSeq(p, 1, j)) > n
    IN  SubSeq(p, 1, k)

\* C21: truncate_password_to_bytes(p, 72) returns p itself when p encodes to
\* at most 72 bytes and otherwise the longest prefix of whole characters of p
\* that encodes to at most 72 bytes; applied twice it returns the same as
\* applied once; hash_password(p) is the digest of that prefix.
C21_Truncation ==
    /\ resp.op = "truncate_password_to_bytes" =>
          /\ Utf8Len(resp.req) <= BcryptMaxBytes => resp.body = resp.req
          /\ resp.body = LongestPrefix(resp.req, BcryptMaxBytes)
    /\ resp.op = "truncate_password_to_bytes twice" =>
          resp.body = LongestPrefix(resp.req, BcryptMaxBytes)
    /\ resp.op = "hash_password" =>
          resp.body = [scheme |-> "bcrypt",
                       secret |-> LongestPrefix(resp.req, BcryptMaxBytes)]

\* a euro sign cut by byte 72 is dropped: 70 bytes are returned
C21_CutDropped ==
    /\ resp.op = "truncate_password_to_bytes"
    /\ Utf8Len(resp.req) > BcryptMaxBytes
    /\ Utf8Len(resp.body) = BcryptMaxBytes - 2
    /\ resp.req[Len(resp.body) + 1] = "U+20AC"
\* a character ending exactly at byte 72 is kept and the next one dropped
C21_ExactKept ==
    /\ resp.op = "truncate_password_to_bytes"
    /\ Utf8Len(resp.req) > BcryptMaxBytes
    /\ Utf8Len(resp.body) = BcryptMaxBytes
    /\ resp.body[Len(resp.body)] = "U+1F600"
\* a password of at most 72 bytes with a multi-byte character is hashed whole
C21_ShortWhole ==
    /\ resp.op = "hash_password"
    /\ Utf8Len(resp.req) = BcryptMaxBytes
    /\ resp.body.secret = resp.req
    /\ resp.req[Len(resp.req)] = "U+00E9"


(***************************************************************************)
(* Signup and signin of a client whose password is pw, next to a second    *)
(* client, with passwords at the 72-byte limit.                            *)
(***************************************************************************)
\* 72 one-byte characters, and passwords that agree with it up to byte 72
Limit72 == StrongHead \o Pad(BcryptMaxBytes - Len(StrongHead))
LongX == Limit72 \o <<"x">>
LongY == Limit72 \o <<"y">>
\* 71 bytes followed by a euro sign, and the 71 bytes alone
Euro71 == StrongHead \o Pad(BcryptMaxBytes - 1 - Len(StrongHead)) \o <<"U+20AC">>
Plain71 == StrongHead \o Pad(BcryptMaxBytes - 1 - Len(StrongHead))
CredPasswords == {PwGood, Limit72, LongX, Euro71}
SigninTries == CredPasswords \cup {LongY, PwOther, Plain71}
Client == "a@b.com"

CredInit ==
    /\ now = 0
    /\ ticks = 0
    /\ users = {}
    /\ nextUserId = FirstUserId
    /\ tasks = {}
    /\ nextTaskId = 1
    /\ issued = {}
    /\ inflight = EmptyBag
    /\ resp = NoResp
    /\ LimiterIdle
    /\ pw \in CredPasswords
    /\ twin_counts = NoTwin

CredNext ==
    \/ \E e \in Emails : Alone /\ SignupBegin(e, IF e = Client THEN pw ELSE PwGood)
    \/ \E f \in Suspended : SignupCommit(f)
    \/ \E e \in Emails, p \in SigninTries : Signin(e, p)
    \/ \E q \in SigninTries : VerifyPassword(q)

CredSpec == CredInit /\ [][CredNext]_vars

(***************************************************************************)
(* C22                                                                     *)
(***************************************************************************)
Strong(p) == validate_password_strength(p) = None

\* C22: verify_password(p, hash_password(p)) is true for every password p that
\* meets the strength rules, whatever its length.
C22_VerifyOwn ==
    (/\ resp.op = "verify_password"
     /\ resp.req[1] = pw
     /\ Strong(pw)) => resp.body = TRUE
\* a password longer than 72 bytes verified against its own digest
C22_LongVerified ==
    /\ resp.op = "verify_password"
    /\ resp.req[1] = pw
    /\ Utf8Len(pw) > BcryptMaxBytes
    /\ pw[Len(pw)] = "U+1F600"
    /\ resp.body = TRUE

\* C22: once the client has signed up with the password pw, every signin with
\* its email and pw is answered 200 with a token that resolves to the id of
\* the client's user row.
C22_Step ==
    (/\ resp'.op = "signin"
     /\ resp'.req = [email |-> Client, password |-> pw]
     /\ \E u \in users : u.email = Client)
    => /\ resp'.status = 200
       /\ resp'.token # None
       /\ \E u \in users :
             /\ u.email = Client
             /\ get_current_user_id(Bearer(TheValue(resp'.token)), now').user_id = Some(u.id)
             /\ TheValue(resp'.body).id = u.id
C22_VerifyThenSignin == []C22_VerifyOwn /\ [][C22_Step]_vars

\* the client signed up second with a password over 72 bytes, and signs in
C22_Witness ==
    /\ resp.op = "signin"
    /\ resp.status = 200
    /\ resp.req = [email |-> Client, password |-> pw]
    /\ Utf8Len(pw) > BcryptMaxBytes
    /\ \E u \in users : u.email = Client /\ u.id > FirstUserId


(***************************************************************************)
(* C23                                                                     *)
(***************************************************************************)
\* the password an email signs up with
SignupPassword(e) == IF e = Client THEN pw ELSE PwGood
Cut72(p) == LongestPrefix(p, BcryptMaxBytes)

\* C23 as stated: verify_password(p1, hash_password(p2)) is false whenever p1
\* differs from p2, and a signin with a password other than the one given at
\* signup is answered 401.
C23_AnyOtherPassword ==
    /\ (resp.op = "verify_password" /\ resp.req[1] # pw) => resp.body = FALSE
    /\ (resp.op = "signin" /\ resp.req.password # SignupPassword(resp.req.email))
          => resp.status = 401

\* C23, amended: verify_password(p1, hash_password(p2)) is false whenever the
\* longest whole-character prefixes of p1 and p2 of at most 72 bytes differ
\* (so whenever p1 differs from p2 and both encode to at most 72 bytes), and a
\* signin with a password whose prefix differs from that of the password given
\* at signup is answered 401 "Invalid email or password".
C23_OtherPrefix ==
    /\ (resp.op = "verify_password" /\ Cut72(resp.req[1]) # Cut72(pw))
          => resp.body = FALSE
    /\ (resp.op = "signin"
        /\ Cut72(resp.req.password) # Cut72(SignupPassword(resp.req.email)))
          => Outcome(resp) = SigninRefusal

\* the client signed up with 72 bytes and a signin with the first 71 of them
\* is refused
C23_Witness ==
    /\ resp.op = "signin"
    /\ resp.status = 401
    /\ resp.req = [email |-> Client, password |-> Plain71]
    /\ pw = Limit72
    /\ \E u \in users : u.email = Client
\* a signin with a password that differs from the client's after byte 72 is
\* answered 200
C23_AcceptedOther ==
    /\ resp.op = "signin"
    /\ resp.status = 200
    /\ resp.req = [email |-> Client, password |-> LongY]
    /\ pw = LongX


(***************************************************************************)
(* Password validation: a client whose password is pw validates it, signs  *)
(* up with it and signs in with it, also to the account of a second        *)
(* client.  The passwords have 7, 8 or 9                                   *)
(* characters: any of an uppercase letter, a lowercase letter, a digit 0-9 *)
(* and a decimal digit outside 0-9, filled up with a symbol or with a      *)
(* letter outside a-z.                                                     *)
(***************************************************************************)
ClassChars == <<"A", "b", "1", "U+0663">>
Fillers == {"#", "U+00E9"}
RuleLens == {MinPasswordLen - 1, MinPasswordLen, MinPasswordLen + 1}
Picked(mask) == SelectSeq(ClassChars, LAMBDA c : \E i \in 1..Len(ClassChars) : ClassChars[i] = c /\ mask[i])
RulePasswords ==
    {Picked(mask) \o [i \in 1..(n - Len(Picked(mask))) |-> f] :
        mask \in [1..Len(ClassChars) -> BOOLEAN], n \in RuleLens, f \in Fillers}

ValidatePasswordStrength ==
    /\ resp' = Returned("validate_password_strength", pw, validate_password_strength(pw))
    /\ UNCHANGED <<now, ticks, users, nextUserId, tasks, nextTaskId, issued, inflight,
                   limiter, pw, twin_counts>>

RuleInit ==
    /\ now = 0
    /\ ticks = 0
    /\ users = {}
    /\ nextUserId = FirstUserId
    /\ tasks = {}
    /\ nextTaskId = 1
    /\ issued = {}
    /\ inflight = EmptyBag
    /\ resp = NoResp
    /\ LimiterIdle
    /\ pw \in RulePasswords
    /\ twin_counts = NoTwin

RuleNext ==
    \/ ValidatePasswordStrength
    \/ \E e \in Emails : Alone /\ SignupBegin(e, IF e = Client THEN pw ELSE PwGood)
    \/ \E f \in Suspended : SignupCommit(f)
    \/ \E e \in Emails : Signin(e, pw)

RuleSpec == RuleInit /\ [][RuleNext]_vars

(***************************************************************************)
(* C24                                                                     *)
(***************************************************************************)
Has(p, chars) == \E i \in 1..Len(p) : p[i] \in chars
\* the rules in the order length, uppercase, lowercase, digit
RuleHolds(p) ==
    <<Len(p) >= 8, Has(p, UpperSet), Has(p, LowerSet), Has(p, DecimalDigits)>>
RuleMessage ==
    <<"Password must be at least 8 characters",
      "Password must contain at least one uppercase letter",
      "Password must contain at least one lowercase letter",
      "Password must contain at least one number">>
FirstViolated(p) == CHOOSE k \in 1..4 : ~RuleHolds(p)[k] /\ \A j \in 1..(k - 1) : RuleHolds(p)[j]
Meets(p) == \A k \in 1..4 : RuleHolds(p)[k]

C24_OtherDigit ==
    /\ resp.op = "signup"
    /\ resp.status = 201
    /\ ~Has(resp.req.password, DigitSet)
\* a signin with a password that violates the rules is answered 401
C24_SigninWeak ==
    /\ resp.op = "signin"
    /\ resp.status = 401
    /\ ~Meets(resp.req.password)
    /\ \E u \in users : u.email = resp.req.email


(***************************************************************************)
(* get_optional_user_id (auth/dependencies.py 72-95), called with the      *)
(* requests a client can forge, for one account that signed up at time 0.  *)
(***************************************************************************)
\* the cookie used as well, as get_current_user_id does
Mut_get_optional_user_id(request, t) ==
    IF falsy(TokenOf(request)) THEN None
    ELSE extract_user_id_from_token(TheValue(TokenOf(request)), t)
get_optional_user_id(request, t) ==
    IF \/ request.header = None
       \/ TheValue(request.header) = <<>>
       \/ ~startswith_Bearer(TheValue(request.header))
    THEN None
    ELSE extract_user_id_from_token(replace_Bearer(TheValue(request.header)), t)

\* the dependency returns; nothing is raised and nothing is written
OptionalUserId(r) ==
    /\ resp' = Response("get_optional_user_id", [auth |-> r], now,
                        get_optional_user_id(r, now), 200, "", 0, None, None, None)
    /\ UNCHANGED <<now, ticks, users, nextUserId, tasks, nextTaskId, issued, inflight,
                   limiter, pw, twin_counts>>

OptRequests ==
    WideRequests
    \cup {[header |-> Some(<<BearerLit, t>>), cookie |-> Some(c)] :
             t \in issued, c \in issued \cup {Garbage}}

OptNext ==
    \/ \E d \in TickSteps : Tick(d)
    \/ \E r \in OptRequests : OptionalUserId(r)
    \/ \E r \in OptRequests : Me(r)

OptSpec == AuthInit /\ [][OptNext]_vars

(***************************************************************************)
(* C25                                                                     *)
(***************************************************************************)
\* the header starts with "Bearer "
HasPrefix(h) == h # None /\ Len(TheValue(h)) > 0 /\ TheValue(h)[1] = BearerLit
\* what is left of the header when "Bearer " is taken out
AfterPrefix(h) == replace_Bearer(TheValue(h))

\* C25: get_optional_user_id returns and never raises; it returns None when
\* the Authorization header is absent, does not start with "Bearer ", or
\* carries a token that is invalid or expired, whatever the auth-token cookie
\* holds; when the header carries a valid token it returns the id in the
\* token's sub, the id get_current_user_id returns for the request.
C25_Optional ==
    resp.op = "get_optional_user_id" =>
        LET r == resp.req.auth
        IN  /\ resp.status = 200
            /\ ~HasPrefix(r.header) => resp.user_id = None
            /\ (HasPrefix(r.header) /\ ~GoodToken(AfterPrefix(r.header), resp.at))
                  => resp.user_id = None
            /\ (HasPrefix(r.header) /\ GoodToken(AfterPrefix(r.header), resp.at))
                  => /\ resp.user_id = int(Some(AfterPrefix(r.header).claims.sub))
                     /\ resp.user_id # None
                     /\ resp.user_id = get_current_user_id(r, resp.at).user_id

\* no header and a valid token in the cookie: None, where get_current_user_id
\* returns the user
C25_Witness ==
    /\ resp.op = "get_optional_user_id"
    /\ resp.req.auth.header = None
    /\ resp.req.auth.cookie # None
    /\ GoodToken(TheValue(resp.req.auth.cookie), resp.at)
    /\ resp.user_id = None
    /\ get_current_user_id(resp.req.auth, resp.at).user_id # None
\* a valid token in the header next to another cookie: the header's user
C25_HeaderUser ==
    /\ resp.op = "get_optional_user_id"
    /\ resp.user_id = Some(1)
    /\ resp.req.auth.cookie = Some(Garbage)
    /\ resp.at > 0
\* an expired token in the header: None
C25_Expired ==
    /\ resp.op = "get_optional_user_id"
    /\ resp.user_id = None
    /\ \E t \in issued : resp.req.auth.header = Some(<<BearerLit, t>>) /\ t.claims.exp < resp.at


(***************************************************************************)
(* Toggles of the tasks by their owners and by others, handled in          *)
(* separate sessions that interleave; nothing else writes to a task.       *)
(***************************************************************************)
ToggleTickSteps == {1}
ToggleNext ==
    \/ \E d \in ToggleTickSteps : Tick(d)
    \/ \E r \in TaskRequests, ti \in Titles : Room(r) /\ CreateTask(r, ti, None)
    \/ \E r \in TaskRequests, id \in TaskIds : ToggleBegin(r, id)
    \/ \E f \in Suspended : ToggleCommit(f)

ToggleSpec == TaskInit /\ [][ToggleNext]_vars

(***************************************************************************)
(* C26                                                                     *)
(***************************************************************************)
\* C26: every toggle answered 200 flips the stored is_completed of its task
\* (so n of them, with no other write, leave the initial value flipped n
\* times), also when the toggles interleave; it changes only is_completed and
\* updated_at of that task and returns the task as stored.
C26_Step ==
    (resp'.op = "toggle_task_completion" /\ resp'.status = 200) =>
        \E old \in tasks, new \in tasks' :
            /\ old.id = resp'.req.task_id
            /\ new.id = old.id
            /\ new.is_completed = ~old.is_completed
            /\ \A c \in DOMAIN old \ {"is_completed", "updated_at"} : new[c] = old[c]
            /\ tasks' \ {new} = tasks \ {old}
            /\ resp'.body = Some(new)
C26_EveryToggleFlips == [][C26_Step]_vars


(***************************************************************************)
(* Deletes interleaved with updates, toggles and further deletes of the    *)
(* same tasks, with lists and with the creation of further tasks.          *)
(***************************************************************************)
DeleteNext ==
    \/ \E r \in TaskRequests, ti \in Titles : CreateTask(r, ti, None)
    \/ \E r \in EditorRequests : GetTasks(r)
    \/ \E r \in EditorRequests, id \in RowIds, data \in TaskUpdateBodies :
           UpdateBegin(r, id, data)
    \/ \E f \in Suspended : UpdateCommit(f)
    \/ \E r \in EditorRequests, id \in RowIds : ToggleBegin(r, id)
    \/ \E f \in Suspended : ToggleCommit(f)
    \/ \E r \in EditorRequests, id \in RowIds : DeleteBegin(r, id)
    \/ \E f \in Suspended : DeleteCommit(f)

DeleteSpec == TaskInit /\ [][DeleteNext]_vars


(***************************************************************************)
(* C27                                                                     *)
(***************************************************************************)
\* the ids handed out so far
Allocated == 1..(nextTaskId - 1)

\* C27: after a delete answered 204 its task is gone, and a task that is gone
\* stays gone: no step brings back a row with an id handed out before, not
\* the commit of an update or toggle that read the task earlier either; a
\* list returns only stored tasks; an update, toggle or delete that reads an
\* id that is gone is answered 404 and goes no further; a new task gets an id
\* never handed out before, and a stored task keeps its owner.
C27_Step ==
    /\ (resp'.op = "delete_task" /\ resp'.status = 204) =>
          Missing(tasks', resp'.req.task_id)
    /\ \A id \in Allocated : Missing(tasks, id) => Missing(tasks', id)
    /\ (resp'.op = "get_tasks" /\ resp'.status = 200) =>
          \A i \in 1..Len(TheValue(resp'.body)) :
              /\ TheValue(resp'.body)[i] \in tasks'
              /\ ~Missing(tasks, TheValue(resp'.body)[i].id)
    /\ (/\ resp'.op \in Mutations
        /\ resp'.user_id # None
        /\ resp'.stmts = 1
        /\ Missing(tasks, resp'.req.task_id)) => resp'.status = 404
    /\ \A f \in BagToSet(inflight') :
          CopiesIn(f, inflight') > CopiesIn(f, inflight) =>
              ~Missing(tasks, f.req.task_id)
    /\ \A new \in tasks' :
          Missing(tasks, new.id) => (new.id >= nextTaskId /\ nextTaskId' > new.id)
    /\ \A old \in tasks, new \in tasks' : old.id = new.id => new.user_id = old.user_id
C27_DeletedStaysDeleted == [][C27_Step]_vars

\* an update that read task 1 before its delete committed is answered after
\* it, and task 1 is not back; the other user's task has another id
C27_Witness ==
    /\ resp.op = "update_task"
    /\ resp.stmts = 2
    /\ resp.req.task_id = 1
    /\ Missing(tasks, 1)
    /\ \E t \in tasks : t.id > 1 /\ Some(t.user_id) # resp.user_id
\* a toggle of an id that was deleted, answered 404
C27_LaterToggle ==
    /\ resp.op = "toggle_task_completion"
    /\ resp.status = 404
    /\ resp.req.task_id \in Allocated
    /\ Missing(tasks, resp.req.task_id)
\* a list after a delete
C27_LaterList ==
    /\ resp.op = "get_tasks"
    /\ resp.status = 200
    /\ Len(TheValue(resp.body)) = 1
    /\ Missing(tasks, 1)
    /\ 1 \in Allocated


(***************************************************************************)
(* C28                                                                     *)
(***************************************************************************)
\* C28: a request the limiter refuses changes nothing: the recorded requests
\* of every client are as before (nothing is added, and nothing younger than
\* 60 seconds is dropped), no route handler is entered, and users, tasks and
\* tokens are as before; so a request of a client of whose admitted requests
\* fewer than 60 lie in the last 60 seconds is let through, however many of
\* its requests were refused before.
C28_Step ==
    /\ (resp'.op = "dispatch" /\ ~resp'.let_through) =>
          /\ \A ip \in Clients :
                /\ Len(request_counts'[ip]) <= Len(request_counts[ip])
                /\ \A i \in DOMAIN request_counts[ip] :
                      request_counts[ip][i][1] > now - 60 =>
                          \E j \in DOMAIN request_counts'[ip] :
                              request_counts'[ip][j] = request_counts[ip][i]
                /\ \A j \in DOMAIN request_counts'[ip] :
                      \E i \in DOMAIN request_counts[ip] :
                          request_counts[ip][i] = request_counts'[ip][j]
                /\ InWindow(ip, now') = Len(request_counts'[ip])
          /\ UNCHANGED <<admitted, inflight, users, nextUserId, tasks, nextTaskId, issued, now>>
    /\ \A ip \in Clients :
          (dispatched' # dispatched /\ InWindow(ip, now) < 60) =>
              ~(resp'.op = "dispatch" /\ resp'.ip = ip /\ ~resp'.let_through)
C28_RefusedChangesNothing == [][C28_Step]_vars

\* the second request in a row that is refused
C28_Witness ==
    /\ resp.op = "dispatch"
    /\ ~resp.let_through
    /\ resp.ip = Busy
    /\ Len(admitted[Busy]) = 60
    /\ Len(request_counts[Busy]) = 60
    /\ dispatched = 4
\* the client is let through once the window has room, after a refusal
C28_AdmittedAfterRefusal ==
    /\ Len(admitted[Busy]) = 61
    /\ dispatched = 4
    /\ \E f \in Suspended : f.op = "dispatch" /\ f.ip = Busy /\ f.at >= 60


(***************************************************************************)
(* Two limiters side by side: the observed client sends the same timed     *)
(* requests to both, the other clients send to either.                     *)
(***************************************************************************)
\* the key of every caller, one shared by all
Mut_client_ip(client) == "unknown"
\* client_ip = request.client.host if request.client else "unknown"
client_ip(client) == IF client = None THEN "unknown" ELSE TheValue(client)

\* request.client of the callers: a peer address, or none
Observed == Some(Busy)
Callers == {Observed, None}

\* dispatch as a function of the limiter's map: the map it leaves, whether
\* the request goes on to call_next, and the X-RateLimit-Remaining it computes
Checked(counts, let_through, remaining) ==
    [request_counts |-> counts, let_through |-> let_through, remaining |-> remaining]
dispatch(counts, client, path, current_time) ==
    IF path \in ExemptPaths
    THEN Checked(counts, TRUE, None)
    ELSE LET ip == client_ip(client)
             cleaned == clean_old_requests(counts, ip, current_time)
             request_count == get_request_count(counts, ip, current_time)
         IN  IF request_count >= requests_per_minute
             THEN Checked(cleaned, FALSE, None)
             ELSE Checked([cleaned EXCEPT ![ip] = Append(@, <<current_time, 1>>)], TRUE,
                          Some(RateLimitHeaders(request_count, current_time).remaining))

Decision(d) == [let_through |-> d.let_through, remaining |-> d.remaining]

\* a request of the observed client, sent to both limiters at the same time
DispatchBoth(path) ==
    /\ dispatched < MaxRequests
    /\ dispatched' = dispatched + 1
    /\ LET first == dispatch(request_counts, Observed, path, now)
           second == dispatch(twin_counts, Observed, path, now)
       IN  /\ request_counts' = first.request_counts
           /\ twin_counts' = second.request_counts
           /\ resp' = [op |-> "dispatch both", client |-> Observed, path |-> path, at |-> now,
                       first |-> Decision(first), second |-> Decision(second)]
    /\ UNCHANGED <<now, ticks, users, nextUserId, tasks, nextTaskId, issued, inflight,
                   admitted, pw>>

\* a request of another client, sent to one of the two limiters only
Runs == {1, 2}
DispatchOne(run, client, path) ==
    /\ dispatched < MaxRequests
    /\ dispatched' = dispatched + 1
    /\ client # Observed
    /\ LET d == dispatch(IF run = 1 THEN request_counts ELSE twin_counts, client, path, now)
       IN  /\ request_counts' = IF run = 1 THEN d.request_counts ELSE request_counts
           /\ twin_counts' = IF run = 1 THEN twin_counts ELSE d.request_counts
           /\ resp' = [op |-> "dispatch one", run |-> run, client |-> client, path |-> path,
                       at |-> now, first |-> Decision(d), second |-> Decision(d)]
    /\ UNCHANGED <<now, ticks, users, nextUserId, tasks, nextTaskId, issued, inflight,
                   admitted, pw>>

PairInit ==
    /\ now = 0
    /\ ticks = 0
    /\ users = {}
    /\ nextUserId = 1
    /\ tasks = {}
    /\ nextTaskId = 1
    /\ issued = {}
    /\ inflight = EmptyBag
    /\ resp = NoResp
    /\ \E k \in Preloads :
          /\ request_counts = [ip \in Clients |->
                                  Burst(IF ip = client_ip(Observed) THEN k ELSE 0, 0)]
          /\ twin_counts = request_counts
    /\ admitted = [ip \in Clients |-> <<>>]
    /\ dispatched = 0
    /\ pw = NoPassword

PairNext ==
    \/ \E d \in LimitTickSteps : Tick(d)
    \/ \E path \in Paths : DispatchBoth(path)
    \/ \E run \in Runs, client \in Callers, path \in Paths : DispatchOne(run, client, path)

PairSpec == PairInit /\ [][PairNext]_vars

\* the entries of key ip in map counts that lie in the window ending at t
Counted(counts, ip, t) ==
    Cardinality({i \in DOMAIN counts[ip] : counts[ip][i][1] > t - window_size})

\* C29: the limiter decides per client address.  Of two runs that hold the
\* same timed requests of one client and differ only in the requests of the
\* other clients, every request of that client gets the same admit/reject
\* decision and the same X-RateLimit-Remaining in both
C29_SameDecisions ==
    resp.op = "dispatch both" => resp.first = resp.second

\* and a request without a client address is counted under the one key
\* "unknown": it reads and writes no other key, and what remains for it is
\* what the earlier address-less requests of the window have left
C29_Step ==
    (resp'.op = "dispatch one" /\ resp'.client = None) =>
        LET before == IF resp'.run = 1 THEN request_counts ELSE twin_counts
            after == IF resp'.run = 1 THEN request_counts' ELSE twin_counts'
            n == Counted(before, "unknown", now)
        IN  /\ \A ip \in Clients \ {"unknown"} : after[ip] = before[ip]
            /\ resp'.path \notin ExemptPaths =>
                  /\ resp'.first.let_through <=> n < requests_per_minute
                  /\ resp'.first.let_through =>
                        /\ resp'.first.remaining = Some(str(Max(0, requests_per_minute - n - 1)))
                        /\ Counted(after, "unknown", now) = n + 1

C29_Independent == []C29_SameDecisions /\ [][C29_Step]_vars

\* the observed client is refused in both runs while the other clients have
\* sent to one run only
C29_Witness ==
    /\ resp.op = "dispatch both"
    /\ ~resp.first.let_through
    /\ ~resp.second.let_through
    /\ request_counts["unknown"] # twin_counts["unknown"]

\* two address-less requests of one run in one window
C29_UnknownShared ==
    /\ resp.op = "dispatch one"
    /\ resp.client = None
    /\ resp.first.remaining = Some(str(requests_per_minute - 2))
    /\ Len(request_counts["unknown"]) = 2
    /\ twin_counts["unknown"] = <<>>

====
